---- MODULE Spec2Model ----
(***************************************************************************)
(* Platfrix: the CI control-plane client (scripts/setup-jenkins.mjs,       *)
(* scripts/clear-jenkins-jobs.mjs), the tunnel manager with the provider's *)
(* authentication, the webhook registrar (scripts/setup-ngrok.mjs),        *)
(* the orchestrator (platfrix-init.mjs) with the steps it runs, and the    *)
(* config store (scripts/config.mjs) the scripts share.                    *)
(*                                                                         *)
(* One orchestration run is a single thread of control.  pc is the place   *)
(* of that thread: "idle" between top-level calls, otherwise the step of   *)
(* the running call.  Every child process the scripts start (curl,         *)
(* powershell, ngrok) is an input of the step that starts it: its exit     *)
(* status and its output are drawn from small sets.  log is the list of    *)
(* HTTP requests the current (or last finished) top-level call issued.     *)
(***************************************************************************)
EXTENDS Integers, Sequences, FiniteSets

\* ------------------------------------------------------------------ bounds
\* Number of top-level calls in one behaviour.
MaxCalls == 2
\* Number of top-level calls in one behaviour of the tunnel-and-webhook setup.
MaxSetups == 1

\* ------------------------------------------------------- program constants
\* for (let i = 0; i < 30; i++) in setupJenkins
ReadyAttempts == 30
\* for (let i = 0; i < 30; i++) in startNgrokTunnel
TunnelAttempts == 30

\* --------------------------------------------------------------- JS values
\* A JS string is modelled by the set of marker substrings it contains
\* ("" is the string with no content at all); null is kept apart.
JsNull == [isNull |-> TRUE, nonEmpty |-> FALSE, has |-> {}]
JsString(nonEmpty, markers) == [isNull |-> FALSE, nonEmpty |-> nonEmpty, has |-> markers]
\* JS truthiness of a string-or-null value
Truthy(s) == ~s.isNull /\ s.nonEmpty
\* String.prototype.includes
Includes(s, marker) == marker \in s.has

\* A finished child process: exit status and captured stdout.
Proc(exit, out) == [exit |-> exit, out |-> out]
\* run(cmd, cwd, true): execSync throws on a non-zero exit status
RunThrows(p) == p.exit # 0

\* encodeURIComponent on the characters used for job names
EncodeChar(c) == CASE c = " " -> "%20"
                   [] c = "/" -> "%2F"
                   [] OTHER   -> c
EncodeURIComponent(s) == [k \in 1..Len(s) |-> EncodeChar(s[k])]

\* ------------------------------------------------------------ input domains
JobNames == { <<"a">>, <<"a", " ", "b">> }
NoName == << >>
RepoUrls == { <<"https://github.com/", "o/r">>, <<"https://github.com/", "o/s">> }
ScriptPaths == { "Jenkinsfile", "ci/Jenkinsfile" }
NoJob == [url |-> << >>, script |-> "", branch |-> "", trigger |-> FALSE]
\* a job that was configured before this run, with a configuration no
\* createPipelineJob call of the model asks for
StaleJob == [url |-> <<"https://github.com/", "old/r", ".git">>, script |-> "Jenkinsfile.old",
             branch |-> "*/old", trigger |-> FALSE]
\* the branches a caller may want a job built from
Branches == {"main", "develop"}

Platforms == {"win32", "linux"}

\* curl exits 0 whatever the HTTP status (-s without -f); 7 = could not connect
CurlExits == {0, 7}

VARIABLES
  platform,     \* process.platform
  strictCrumb,  \* the server binds a crumb to the session that fetched it
  jobs,         \* control plane: job name -> stored configuration (NoJob if absent)
  jobs0,        \* the jobs present when the run began
  createPosts,  \* control plane: creation POSTs received per job name, all calls
  jobCalls,     \* finished createPipelineJob calls per job name
  credPosts,    \* control plane: credential-creation POSTs received, all calls
  deletePosts,  \* control plane: job-deletion POSTs received, all calls
  credRet,      \* return value of the last addCredential
  jobRet,       \* return value of the last createPipelineJob
  exist,        \* createPipelineJob: what the last existence check met:
                \* "none" (no check yet), "found", "absent", "failed" (no answer)
  getFailed,    \* some existence check of this run got no answer
  todo,         \* clearJobs: the listed jobs not yet visited by the loop
  console,      \* clearJobs: the lines the run has written, in order
  statuses,     \* startNgrokTunnel: the tunnel lists its status queries saw, in order
  spawned,      \* startNgrokTunnel: provider processes launched by the running / last call
  launches,     \* provider processes launched, all calls
  kills,        \* kill commands issued against the provider, all calls
  killed,       \* stopNgrok: the exit status of its last kill command (-1: none
                \* yet) and whether the call let an exception escape
  url,          \* value returned by the last startNgrokTunnel / getNgrokUrl
  tstate,       \* the tunnel's process state as the tunnel manager has driven it
  anchor,       \* the tunnel list a startNgrokTunnel call returned a URL from
                \* (empty: none yet, or stopped since)
  drift,        \* some status query since then listed something else
  installed,    \* the provider's executable is found (isNgrokInstalled)
  authed,       \* the provider's configuration holds an authtoken
  savedToken,   \* config store: ngrokAuthToken ("" when none is saved)
  prompts,      \* questions put to the interactive layer by the running / last call
  tokenTries,   \* tokens handed to `config add-authtoken` by the running / last
                \* call, in order, each with whether the provider took it
  hookCalls,    \* hook-creation requests that reached the hosting platform in
                \* the running / last setupWebhook invocation
  hooks,        \* hosting platform: hooks created on the repository, all calls
  returned,     \* the object returned by the last setupNgrokAndWebhook / setupWebhook
  mpc,          \* orchestrator: the step main() is at ("off": main is not run)
  exitCode,     \* orchestrator: the status the process exited with (-1: not yet)
  printed,      \* orchestrator: the messages main() has printed
  steps,        \* orchestrator: the steps main() has called, in order
  thrown,       \* orchestrator: the error main() caught ("none": nothing caught)
  files,        \* the required local files present in the installation
  container,    \* a control-plane container is running
  scaffold,     \* createAngularRepo: whether its temp directory exists, and what
                \* the call has done, in order
  jenkins,      \* startJenkins: compose-up commands issued, the status the
                \* last login probe saw, and how the call ended
  repos,        \* hosting platform: the repositories that exist
  pushed,       \* hosting platform: the repositories holding the pipeline file
  store,        \* ~/.platfrix: whether the directory and config.json exist, and
                \* the document config.json holds
  loaded,       \* the object the last loadConfig() of a config command returned
  tmp,          \* the temp directory: jenkins-cred.xml and jenkins-job.xml by
                \* their content (<< >>, NoJob: no such file), jenkins-body.txt
                \* and jenkins-post.ps1 by their presence
  got,          \* the last direct GET of the API client: the HTTP status the
                \* control plane answered with (0: no connection) and the
                \* value the GET returned to its caller
  calls,        \* top-level calls started so far
  pc,           \* position of the single thread of control
  op,           \* the running / last finished top-level call and its arguments
  i,            \* loop counter of the running polling loop
  apiReady,     \* setupJenkins: let apiReady
  log,          \* requests issued by the running / last finished top-level call
  ret           \* return value of the last finished top-level call

vars == << store, loaded, tmp, mpc, exitCode, printed, steps, thrown, files, container, scaffold, jenkins, repos, pushed, platform, strictCrumb, jobs, jobs0, createPosts, jobCalls, credPosts,
           deletePosts, credRet, jobRet, exist, getFailed, todo, console, statuses, spawned, launches, kills, killed, url,
           tstate, anchor, drift, installed, authed, savedToken, prompts, tokenTries,
           hookCalls, hooks, returned, got, calls, pc, op, i, apiReady, log, ret >>

\* the variables of the control-plane client, and those of the tunnel manager
serverVars == << jobs, createPosts, jobCalls, credPosts, deletePosts, exist, getFailed >>
tunnelVars == << statuses, spawned, launches, kills, killed, url, tstate, anchor, drift >>
\* the variables of the config store
configVars == << store, loaded >>
\* the variables of the orchestrator and of what its steps act on
mainVars == << mpc, exitCode, printed, steps, thrown, files, container, scaffold, jenkins, repos, pushed >>
\* the variables of the provider's authentication and of the webhook registrar
webhookVars == << installed, authed, savedToken, prompts, tokenTries, hookCalls, hooks, returned >>

\* ------------------------------------------------------------ request log
\* ctx is the cookie-bearing session context the request was sent in; every
\* curl invocation has no cookie jar and so is a context of its own.
\* crumbCtx is the context in which the crumb attached to a POST was fetched
\* (0 when the request carries no crumb).  hit tells what came back: for a
\* GET, that the answer arrived and carried the marker the caller looks for;
\* for a POST, that the request was delivered (curl) or accepted (powershell).
Req(kind, target, arg, ctx, crumbCtx, hit) ==
  [kind |-> kind, target |-> target, arg |-> arg, ctx |-> ctx, crumbCtx |-> crumbCtx, hit |-> hit]
\* the child process exited 0 and its output carries the marker
Marked(p, marker) == p.exit = 0 /\ marker \in p.out.has
\* a fresh context: one per child process of the call
NewCtx(l) == Len(l) + 1

\* the fields of the objects setupWebhook and setupNgrokAndWebhook return
\* (a field the JS object lacks is FALSE / empty)
NoResult == [kind |-> "none", success |-> FALSE, reason |-> "", ngrokUrl |-> << >>,
             webhookUrl |-> << >>, webhookCreated |-> FALSE,
             created |-> FALSE, manual |-> FALSE, skipped |-> FALSE]

NoOp == [name |-> "none", job |-> NoName, url |-> << >>, script |-> "",
         user |-> "", pass |-> "", full |-> "", port |-> 0, id |-> "", branch |-> "",
         rl |-> FALSE, jenkinsUrl |-> << >>]

\* ----------------------------------------------------- control-plane client
\* jenkinsApi(endpoint) with method GET: the captured output, null if run throws
JenkinsApi(p) == IF RunThrows(p) THEN JsNull ELSE p.out

\* getCrumb(): run, then JSON.parse; any exception gives null.  The crumb
\* remembers the context it was fetched in.
NoCrumb == [isNull |-> TRUE, ctx |-> 0]
\* a crumb kept from the first request of the call and handed out again
GetCrumb_Kept(p, ctx) ==
  IF RunThrows(p) \/ ~Includes(p.out, "json") THEN NoCrumb
  ELSE [isNull |-> FALSE, ctx |-> 1]

\* getCrumb handing out an empty crumb where it should give null
GetCrumb_Unchecked(p, ctx) ==
  IF RunThrows(p) \/ ~Includes(p.out, "json") THEN [isNull |-> FALSE, ctx |-> 0]
  ELSE [isNull |-> FALSE, ctx |-> ctx]

GetCrumb(p, ctx) ==
  IF RunThrows(p) \/ ~Includes(p.out, "json") THEN NoCrumb
  ELSE [isNull |-> FALSE, ctx |-> ctx]

\* checkJenkinsApi(): result && result.includes("mode")
CheckJenkinsApi(p) == LET result == JenkinsApi(p) IN Truthy(result) /\ Includes(result, "mode")

\* the existence check left out
JobFound_Never(exists) == FALSE

\* the existence check looking for a marker no answer carries
JobFound_WrongMarker(exists) == Truthy(exists) /\ Includes(exists, "fullname")

\* createPipelineJob: exists && exists.includes("fullName")
JobFound(exists) == Truthy(exists) /\ Includes(exists, "fullName")

\* jobConfigXml: the fields of the generated pipeline definition
JobConfigXml(jobName, githubRepoUrl, jenkinsfilePath) ==
  [url |-> githubRepoUrl \o <<".git">>, script |-> jenkinsfilePath,
   branch |-> "*/main", trigger |-> TRUE]

\* The control plane answering GET /job/<name>/api/json over a working
\* connection: the job description, or a 404 page.
JobApiBody(name) ==
  IF jobs[name] # NoJob THEN JsString(TRUE, {"json", "fullName"}) ELSE JsString(TRUE, {"html"})
\* Outputs of the child process of a GET /job/<name>/api/json
JobGetProcs(name) == { Proc(0, JobApiBody(name)), Proc(7, JsString(FALSE, {})) }
\* Outputs of the child process of a GET /api/json
LivenessProcs == { Proc(0, JsString(TRUE, {"json", "mode"})),
                   Proc(0, JsString(TRUE, {"html"})),
                   Proc(0, JsString(FALSE, {})),
                   Proc(7, JsString(FALSE, {})) }
\* Outputs of the child process of a GET /crumbIssuer/api/json
CrumbProcs == { Proc(0, JsString(TRUE, {"json", "crumb"})),
                Proc(0, JsString(TRUE, {"html"})),
                Proc(7, JsString(FALSE, {})) }
\* The control plane accepts a POST only with a crumb it issued, and, when
\* it binds crumbs to sessions, only in the session that fetched the crumb.
CrumbValid(crumbCtx, ctx) == crumbCtx # 0 /\ (strictCrumb => crumbCtx = ctx)

\* what an XML reader finds in a JS string spliced into a document: the
\* text, cut at the tags it holds
Lex(str) == CASE str = "" -> << >>
              [] str = "p</password><password>q" -> <<"p", "</password>", "<password>", "q">>
              [] OTHER -> << str >>

\* credentialXml: the template with its values spliced in as they are
CredentialXml(credentialId, username, password, description) ==
  <<"<UsernamePasswordCredentialsImpl>", "<scope>", "GLOBAL", "</scope>", "<id>">>
    \o Lex(credentialId) \o <<"</id>", "<description>">>
    \o Lex(description) \o <<"</description>", "<username>">>
    \o Lex(username) \o <<"</username>", "<password>">>
    \o Lex(password) \o <<"</password>", "</UsernamePasswordCredentialsImpl>">>

\* the temp directory with none of the client's files in it
NoTemp == [cred |-> << >>, job |-> NoJob, body |-> FALSE, script |-> FALSE]

\* what addCredential is called with
CredentialIds == {"docker-hub-credentials", "registry"}
Usernames == {"u"}
Secrets == {"p", "p</password><password>q"}

\* addCredential sending its POST a second time when the first was not delivered
AddCredential_Retry(base, credentialId, username, password) ==
  \E cp \in CrumbProcs :
    LET c1    == NewCtx(base)
        crumb == GetCrumb(cp, c1)
        l1    == Append(base, Req("GET", "crumbIssuer", NoName, c1, 0, Marked(cp, "crumb")))
    IN  IF crumb.isNull
        THEN /\ log' = l1
             /\ credRet' = FALSE
             /\ credPosts' = credPosts
             /\ tmp' = tmp
        ELSE \E exit \in CurlExits, again \in CurlExits :
               LET c2 == NewCtx(l1)
                   l2 == Append(l1, Req("POST", "createCredentials", NoName, c2, crumb.ctx, exit = 0))
               IN  /\ tmp' = [tmp EXCEPT !.cred = CredentialXml(credentialId, username, password, "")]
                   /\ IF exit = 0
                      THEN /\ log' = l2
                           /\ credRet' = TRUE
                           /\ credPosts' = credPosts + 1
                      ELSE /\ log' = Append(l2, Req("POST", "createCredentials", NoName,
                                                    NewCtx(l2), crumb.ctx, again = 0))
                           /\ credRet' = (again = 0)
                           /\ credPosts' = credPosts + (IF again = 0 THEN 1 ELSE 0)

\* addCredential(credentialId, username, password), appended to the log base
AddCredential(base, credentialId, username, password) ==
  \E cp \in CrumbProcs :
    LET c1    == NewCtx(base)
        crumb == GetCrumb(cp, c1)
        l1    == Append(base, Req("GET", "crumbIssuer", NoName, c1, 0, Marked(cp, "crumb")))
    IN  IF crumb.isNull
        THEN /\ log' = l1
             /\ credRet' = FALSE
             /\ credPosts' = credPosts
             /\ tmp' = tmp
        ELSE \E exit \in CurlExits :
               LET c2 == NewCtx(l1)
               IN  /\ tmp' = [tmp EXCEPT !.cred = CredentialXml(credentialId, username, password, "")]
                   /\ log' = Append(l1, Req("POST", "createCredentials", NoName, c2, crumb.ctx, exit = 0))
                   /\ credRet' = (exit = 0)
                   /\ credPosts' = credPosts + (IF exit = 0 THEN 1 ELSE 0)

\* createPipelineJob(jobName, githubRepoUrl, jenkinsfilePath), appended to the log base
CreatePipelineJob(base, jobName, githubRepoUrl, jenkinsfilePath) ==
  \E gp \in JobGetProcs(jobName) :
    LET enc    == EncodeURIComponent(jobName)
        exists == JenkinsApi(gp)
        l0     == Append(base, Req("GET", "job/api/json", enc, NewCtx(base), 0, Marked(gp, "fullName")))
    IN  /\ jobCalls' = [jobCalls EXCEPT ![jobName] = @ + 1]
        /\ exist' = IF gp.exit # 0 THEN "failed"
                    ELSE IF jobs[jobName] # NoJob THEN "found" ELSE "absent"
        /\ getFailed' = (getFailed \/ gp.exit # 0)
        /\ IF JobFound(exists)
           THEN /\ log' = l0
                /\ jobRet' = TRUE
                /\ UNCHANGED << jobs, createPosts, tmp >>
           ELSE \E cp \in CrumbProcs :
                  LET c1    == NewCtx(l0)
                      crumb == GetCrumb(cp, c1)
                      l1    == Append(l0, Req("GET", "crumbIssuer", NoName, c1, 0, Marked(cp, "crumb")))
                  IN  IF crumb.isNull
                      THEN /\ log' = l1
                           /\ jobRet' = FALSE
                           /\ UNCHANGED << jobs, createPosts, tmp >>
                      ELSE \E exit \in CurlExits :
                             LET c2       == NewCtx(l1)
                                 accepted == exit = 0 /\ CrumbValid(crumb.ctx, c2) /\ jobs[jobName] = NoJob
                             IN  /\ tmp' = [tmp EXCEPT !.job =
                                              JobConfigXml(jobName, githubRepoUrl, jenkinsfilePath)]
                                 /\ log' = Append(l1, Req("POST", "createItem", enc, c2, crumb.ctx, exit = 0))
                                 /\ jobRet' = (exit = 0)
                                 /\ createPosts' = [createPosts EXCEPT ![jobName] =
                                                      @ + (IF exit = 0 THEN 1 ELSE 0)]
                                 /\ jobs' = IF accepted
                                            THEN [jobs EXCEPT ![jobName] =
                                                    JobConfigXml(jobName, githubRepoUrl, jenkinsfilePath)]
                                            ELSE jobs

\* the locals of a call start out fresh
Fresh == i' = 0 /\ apiReady' = FALSE /\ todo' = << >> /\ console' = << >>

\* a direct call of the exported addCredential
AddCredentialCall ==
  /\ pc = "idle" /\ calls < MaxCalls
  /\ calls' = calls + 1
  /\ \E c \in CredentialIds, u \in Usernames, p \in Secrets :
       /\ op' = [NoOp EXCEPT !.name = "addCredential", !.id = c, !.user = u, !.pass = p]
       /\ AddCredential(<< >>, c, u, p)
  /\ ret' = credRet'
  /\ Fresh
  /\ jobRet' = FALSE
  /\ UNCHANGED tunnelVars
  /\ UNCHANGED webhookVars
  /\ UNCHANGED << configVars, mainVars, platform, strictCrumb, got, jobs, jobs0, createPosts, jobCalls, deletePosts,
                  exist, getFailed, pc >>

\* a direct call of the exported createPipelineJob
CreatePipelineJobCall ==
  /\ pc = "idle" /\ calls < MaxCalls
  /\ calls' = calls + 1
  /\ \E n \in JobNames, u \in RepoUrls, s \in ScriptPaths, b \in Branches :
       /\ op' = [NoOp EXCEPT !.name = "createPipelineJob", !.job = n, !.url = u, !.script = s,
                              !.branch = b]
       /\ CreatePipelineJob(<< >>, n, u, s)
  /\ ret' = jobRet'
  /\ Fresh
  /\ credRet' = FALSE
  /\ UNCHANGED tunnelVars
  /\ UNCHANGED webhookVars
  /\ UNCHANGED << configVars, mainVars, platform, strictCrumb, got, jobs0, credPosts, deletePosts, pc >>

\* ------------------------------------------------------------ setupJenkins
\* the options setupJenkins is called with
SetupOptions ==
  { [NoOp EXCEPT !.name = "setupJenkins", !.job = n, !.full = f, !.user = u, !.pass = p] :
      n \in {NoName, <<"a">>}, f \in {"", "o/r"}, u \in {"", "u"}, p \in {"", "p"} }

\* the loop bound off by one
ReadyLoopCond_OneMore(k) == k <= ReadyAttempts

\* for (let i = 0; i < 30; i++)
ReadyLoopCond(k) == k < ReadyAttempts

\* the gate left open
GateClosed_Never == FALSE

\* if (!apiReady) return false
GateClosed == ~apiReady
\* the credential step taken with one of the two values missing
WantsCredential_Either(o) == o.user # "" \/ o.pass # ""

\* if (dockerHubUsername && dockerHubPassword)
WantsCredential(o) == o.user # "" /\ o.pass # ""
\* if (repoName && repoFullName)
WantsJob(o) == o.job # NoName /\ o.full # ""

SetupJenkinsCall ==
  /\ pc = "idle" /\ calls < MaxCalls
  /\ calls' = calls + 1
  /\ \E o \in SetupOptions : op' = o
  /\ Fresh
  /\ log' = << >>
  /\ credRet' = FALSE /\ jobRet' = FALSE /\ ret' = FALSE
  /\ pc' = IF ReadyLoopCond(0) THEN "sj_poll" ELSE "sj_gate"
  /\ UNCHANGED tunnelVars
  /\ UNCHANGED webhookVars
  /\ UNCHANGED << configVars, mainVars, tmp, platform, strictCrumb, got, exist, getFailed, jobs, jobs0, createPosts, jobCalls, credPosts,
                  deletePosts >>

\* the readiness loop without its break: a success is noted and polling goes on
SetupJenkinsProbe_NoBreak ==
  /\ pc = "sj_poll"
  /\ \E p \in LivenessProcs :
       /\ log' = Append(log, Req("GET", "api/json", NoName, NewCtx(log), 0, Marked(p, "mode")))
       /\ apiReady' = (apiReady \/ CheckJenkinsApi(p))
       /\ i' = i + 1
       /\ pc' = IF ReadyLoopCond(i + 1) THEN "sj_poll" ELSE "sj_gate"
  /\ UNCHANGED tunnelVars
  /\ UNCHANGED webhookVars
  /\ UNCHANGED << configVars, mainVars, tmp, platform, strictCrumb, got, exist, getFailed, jobs, jobs0, createPosts, jobCalls,
                  credPosts, deletePosts, credRet, jobRet, todo, console, calls, op, ret >>

\* one iteration of the readiness loop: checkJenkinsApi, then break or sleep
SetupJenkinsProbe ==
  /\ pc = "sj_poll"
  /\ \E p \in LivenessProcs :
       LET ok == CheckJenkinsApi(p)
       IN  /\ log' = Append(log, Req("GET", "api/json", NoName, NewCtx(log), 0, Marked(p, "mode")))
           /\ IF ok
              THEN /\ apiReady' = TRUE
                   /\ i' = i
                   /\ pc' = "sj_gate"
              ELSE /\ apiReady' = apiReady
                   /\ i' = i + 1
                   /\ pc' = IF ReadyLoopCond(i + 1) THEN "sj_poll" ELSE "sj_gate"
  /\ UNCHANGED tunnelVars
  /\ UNCHANGED webhookVars
  /\ UNCHANGED << configVars, mainVars, tmp, platform, strictCrumb, got, exist, getFailed, jobs, jobs0, createPosts, jobCalls, credPosts,
                  deletePosts, credRet, jobRet, todo, console, calls, op, ret >>

\* setupJenkins giving up when addCredential returns false
SetupJenkinsCredential_AbortOnFailure ==
  /\ pc = "sj_gate"
  /\ IF GateClosed
     THEN /\ ret' = FALSE
          /\ pc' = "idle"
          /\ UNCHANGED << log, credRet, credPosts, tmp >>
     ELSE /\ ret' = ret
          /\ IF WantsCredential(op)
             THEN /\ AddCredential(log, "docker-hub-credentials", op.user, op.pass)
                  /\ pc' = IF credRet' THEN "sj_job" ELSE "idle"
             ELSE /\ pc' = "sj_job"
                  /\ UNCHANGED << log, credRet, credPosts, tmp >>
  /\ UNCHANGED tunnelVars
  /\ UNCHANGED webhookVars
  /\ UNCHANGED << configVars, mainVars, platform, strictCrumb, got, exist, getFailed, jobs, jobs0, createPosts, jobCalls, deletePosts,
                  jobRet, todo, console, calls, op, i, apiReady >>

\* after the loop: the readiness gate, then the optional addCredential
SetupJenkinsCredential ==
  /\ pc = "sj_gate"
  /\ IF GateClosed
     THEN /\ ret' = FALSE
          /\ pc' = "idle"
          /\ UNCHANGED << log, credRet, credPosts, tmp >>
     ELSE /\ pc' = "sj_job"
          /\ ret' = ret
          /\ IF WantsCredential(op)
             THEN AddCredential(log, "docker-hub-credentials", op.user, op.pass)
             ELSE UNCHANGED << log, credRet, credPosts, tmp >>
  /\ UNCHANGED tunnelVars
  /\ UNCHANGED webhookVars
  /\ UNCHANGED << configVars, mainVars, platform, strictCrumb, got, exist, getFailed, jobs, jobs0, createPosts, jobCalls, deletePosts,
                  jobRet, todo, console, calls, op, i, apiReady >>

\* the optional createPipelineJob, then return true
SetupJenkinsJob ==
  /\ pc = "sj_job"
  /\ IF WantsJob(op)
     THEN CreatePipelineJob(log, op.job, <<"https://github.com/", op.full>>, "Jenkinsfile")
     ELSE UNCHANGED << log, jobRet, jobs, createPosts, jobCalls, exist, getFailed, tmp >>
  /\ ret' = TRUE
  /\ pc' = "idle"
  /\ UNCHANGED tunnelVars
  /\ UNCHANGED webhookVars
  /\ UNCHANGED << configVars, mainVars, platform, strictCrumb, got, jobs0, credPosts, deletePosts, credRet, todo, console,
                  calls, op, i, apiReady >>

\* ---------------------------------------------------------------- clearJobs
\* httpGet(url): null if run throws, else the captured output
HttpGet(p) == IF RunThrows(p) THEN JsNull ELSE p.out
\* Outputs of the child process of GET /api/json?tree=jobs[name]
ListProcs == { Proc(0, JsString(TRUE, {"json", "jobs"})),
               Proc(0, JsString(TRUE, {"html"})),
               Proc(0, JsString(FALSE, {})),
               Proc(7, JsString(FALSE, {})) }
\* the orders in which the control plane may list the jobs it holds
Listings ==
  LET S == { n \in JobNames : jobs[n] # NoJob }
  IN  { l \in [1..Cardinality(S) -> S] : \A x, y \in 1..Cardinality(S) : x # y => l[x] # l[y] }

\* clearJobs up to the start of the for loop
ClearJobsCall ==
  /\ pc = "idle" /\ calls < MaxCalls
  /\ calls' = calls + 1
  /\ op' = [NoOp EXCEPT !.name = "clearJobs"]
  /\ i' = 0 /\ apiReady' = FALSE
  /\ credRet' = FALSE /\ jobRet' = FALSE /\ ret' = FALSE
  /\ \E p \in ListProcs :
       LET result == HttpGet(p)
           parsed == Truthy(result) /\ Includes(result, "json")
       IN  /\ log' = << Req("GET", "api/json?tree=jobs[name]", NoName, 1, 0, Marked(p, "jobs")) >>
           /\ IF parsed
              THEN \E l \in Listings :
                     /\ todo' = l
                     /\ pc' = IF Len(l) = 0 THEN "idle" ELSE "cj_loop"
                     /\ console' = IF Len(l) = 0 THEN << "No jobs found to delete" >>
                                   ELSE << "Found jobs to delete" >>
              ELSE /\ todo' = << >>
                   /\ pc' = "idle"
                   /\ console' = IF Truthy(result) THEN << "Error parsing job list" >>
                                 ELSE << "Could not connect to Jenkins" >>
  /\ UNCHANGED tunnelVars
  /\ UNCHANGED webhookVars
  /\ UNCHANGED << configVars, mainVars, tmp, platform, strictCrumb, got, exist, getFailed, jobs0, jobs, createPosts, jobCalls, credPosts, deletePosts >>

\* one iteration of the for loop of clearJobs: httpPost(.../doDelete, "")
\* On win32 one powershell process fetches the crumb and sends the POST
\* in one WebSession; elsewhere httpPost returns false at once.
ClearJobsDelete ==
  /\ pc = "cj_loop"
  /\ \E success \in BOOLEAN :
       /\ LET job == Head(todo)
              enc == EncodeURIComponent(job)
              c   == NewCtx(log)
          IN  IF platform # "win32"
              THEN /\ success = FALSE
                   /\ UNCHANGED << log, jobs, deletePosts, ret, tmp >>
              ELSE \E cp \in CrumbProcs :
                     LET crumb == GetCrumb(cp, c)
                         l1    == Append(log, Req("GET", "crumbIssuer", NoName, c, 0, Marked(cp, "crumb")))
                     IN  IF crumb.isNull
                         THEN /\ success = FALSE
                              /\ log' = l1
                              /\ UNCHANGED << jobs, deletePosts, ret >>
                         ELSE \E connected \in BOOLEAN :
                                LET accepted == connected /\ CrumbValid(crumb.ctx, c) /\ jobs[job] # NoJob
                                IN  /\ success = accepted
                                    /\ log' = Append(l1, Req("POST", "doDelete", enc, c, crumb.ctx, accepted))
                                    /\ deletePosts' = deletePosts + (IF connected THEN 1 ELSE 0)
                                    /\ jobs' = IF accepted THEN [jobs EXCEPT ![job] = NoJob] ELSE jobs
                                    /\ ret' = ret
       /\ console' = console \o << IF success THEN "deleted" ELSE "Failed to delete" >>
                              \o (IF Len(todo) = 1 THEN << "All jobs cleared!" >> ELSE << >>)
  /\ platform = "win32" => tmp' = [tmp EXCEPT !.body = TRUE, !.script = TRUE]
  /\ todo' = Tail(todo)
  /\ pc' = IF Len(todo) = 1 THEN "idle" ELSE "cj_loop"
  /\ UNCHANGED tunnelVars
  /\ UNCHANGED webhookVars
  /\ UNCHANGED << configVars, mainVars, platform, strictCrumb, got, exist, getFailed, jobs0, createPosts, jobCalls, credPosts, credRet, jobRet,
                  calls, op, i, apiReady >>

\* ------------------------------------------------- GET of the API client
\* What the control plane may answer to a GET: 200 with JSON, an error
\* status with an error page, or nothing at all (status 0: no connection)
HttpAnswers ==
  { [status |-> 200, body |-> JsString(TRUE, {"json"})],
    [status |-> 404, body |-> JsString(TRUE, {"html"})],
    [status |-> 503, body |-> JsString(TRUE, {"html"})],
    [status |-> 0,   body |-> JsString(FALSE, {})] }
\* curl -s <url>: exit 7 without a connection; with one, exit 0 and the
\* response body on stdout whatever the status (there is no -f)
CurlGet(h) == IF h.status = 0 THEN Proc(7, JsString(FALSE, {})) ELSE Proc(0, h.body)
\* jenkins-get.ps1: Invoke-WebRequest throws on no connection and on an error
\* status; the script catches it and writes an empty line
PowershellGet(h) ==
  IF h.status = 200 THEN Proc(0, h.body) ELSE Proc(0, JsString(TRUE, {}))

\* jenkinsApi(endpoint) called with the default method GET
JenkinsApiGetCall ==
  /\ pc = "idle" /\ calls < MaxCalls
  /\ calls' = calls + 1
  /\ op' = [NoOp EXCEPT !.name = "jenkinsApi"]
  /\ \E h \in HttpAnswers :
       /\ got' = [status |-> h.status, body |-> JenkinsApi(CurlGet(h))]
       /\ log' = << Req("GET", "api/json", NoName, 1, 0, h.status = 200) >>
  /\ Fresh
  /\ credRet' = FALSE /\ jobRet' = FALSE /\ ret' = FALSE
  /\ UNCHANGED tunnelVars
  /\ UNCHANGED webhookVars
  /\ UNCHANGED << configVars, mainVars, tmp, platform, strictCrumb, jobs, jobs0, createPosts, jobCalls, credPosts,
                  deletePosts, exist, getFailed, pc >>

\* httpGet(url)
HttpGetCall ==
  /\ pc = "idle" /\ calls < MaxCalls
  /\ calls' = calls + 1
  /\ op' = [NoOp EXCEPT !.name = "httpGet"]
  /\ \E h \in HttpAnswers :
       LET p == IF platform = "win32" THEN PowershellGet(h) ELSE CurlGet(h)
       IN  /\ got' = [status |-> h.status, body |-> HttpGet(p)]
           /\ log' = << Req("GET", "api/json?tree=jobs[name]", NoName, 1, 0, h.status = 200) >>
  /\ Fresh
  /\ credRet' = FALSE /\ jobRet' = FALSE /\ ret' = FALSE
  /\ UNCHANGED tunnelVars
  /\ UNCHANGED webhookVars
  /\ UNCHANGED << configVars, mainVars, tmp, platform, strictCrumb, jobs, jobs0, createPosts, jobCalls, credPosts,
                  deletePosts, exist, getFailed, pc >>

\* ----------------------------------------------------------- tunnel manager
NullUrl == << >>
Ports == {8080, 3000}
\* the tunnels the provider's status endpoint may list
TunnelEntries ==
  { [public_url |-> <<"https://", "h1">>, port |-> 8080],
    [public_url |-> <<"http://", "h1", "/">>, port |-> 8080],
    [public_url |-> <<"https://", "h2">>, port |-> 3000] }
TunnelLists ==
  { << >> } \cup { <<e>> : e \in TunnelEntries }
            \cup { <<e, f>> : e \in TunnelEntries, f \in TunnelEntries }
\* Outputs of the child process of GET http://127.0.0.1:4040/api/tunnels:
\* the provider is not running, answers something that is no JSON, or lists tunnels
StatusProcs ==
  { [exit |-> 7, json |-> FALSE, tunnels |-> << >>],
    [exit |-> 0, json |-> FALSE, tunnels |-> << >>] }
  \cup { [exit |-> 0, json |-> TRUE, tunnels |-> l] : l \in TunnelLists }

\* run + JSON.parse inside try: the tunnel list, empty when either throws
StatusTunnels(p) == IF RunThrows(p) \/ ~p.json THEN << >> ELSE p.tunnels
\* the length test off by one
Listed_MoreThanOne(ts) == Len(ts) > 1

\* tunnels.tunnels && tunnels.tunnels.length > 0
Listed(ts) == Len(ts) > 0
\* public_url.startsWith("https://")
IsHttps(u) == Len(u) > 0 /\ u[1] = "https://"
\* the last entry taken whatever its scheme
PickUrl_LastEntry(ts) == ts[Len(ts)].public_url

\* the first entry taken whatever its scheme
PickUrl_FirstEntry(ts) == ts[1].public_url

\* tunnels.find(t => t.public_url.startsWith("https://"))?.public_url || tunnels[0].public_url
PickUrl(ts) ==
  LET hs == { k \in 1..Len(ts) : IsHttps(ts[k].public_url) }
  IN  IF hs # {} THEN ts[CHOOSE k \in hs : \A m \in hs : k <= m].public_url
      ELSE ts[1].public_url
\* the loop bound off by one
TunnelLoopCond_OneMore(k) == k <= TunnelAttempts

\* for (let i = 0; i < 30; i++)
TunnelLoopCond(k) == k < TunnelAttempts

\* The tunnel's process state after each thing the tunnel manager does to it:
\* the launched provider taken to be running at once
AfterLaunch_Running == "running"

\* spawn(NGROK_PATH, ["http", port]) leaves a provider that lists nothing yet
AfterLaunch == "starting"
\* a status response that lists a tunnel: "ngrok already running" / "tunnel started"
AfterListing == "running"
\* taskkill / pkill
AfterStop == "stopped"
\* the list a URL was first returned from is kept until stopNgrok
Anchored(ts) == IF anchor = << >> THEN ts ELSE anchor
\* a status query that lists something else than that list
Drifted(ts) == drift \/ (anchor # << >> /\ ts # anchor)

\* where startNgrokTunnel returns to: its caller setupNgrokAndWebhook, or
\* the top level
TunnelReturn == IF op.name = "setupNgrokAndWebhook" THEN "nw_hook" ELSE "idle"

\* the reuse check left out: every call launches
StartNgrokTunnelCall_AlwaysLaunch ==
  /\ pc = "idle" /\ calls < MaxCalls
  /\ calls' = calls + 1
  /\ \E port \in Ports : op' = [NoOp EXCEPT !.name = "startNgrokTunnel", !.port = port]
  /\ i' = 0
  /\ \E p \in StatusProcs :
       LET ts == StatusTunnels(p)
       IN  /\ statuses' = << ts >>
           /\ drift' = Drifted(ts)
           /\ url' = NullUrl
           /\ spawned' = 1
           /\ launches' = launches + 1
           /\ tstate' = AfterLaunch
           /\ anchor' = anchor
           /\ pc' = IF TunnelLoopCond(0) THEN "ng_poll" ELSE "idle"
  /\ UNCHANGED serverVars
  /\ UNCHANGED webhookVars
  /\ UNCHANGED << configVars, mainVars, tmp, platform, strictCrumb, got, jobs0, credRet, jobRet, todo, console, kills, killed, apiReady, log, ret >>

\* startNgrokTunnel(port) up to the first sleep: the reuse check, else the launch
StartNgrokTunnelCall ==
  /\ pc = "idle" /\ calls < MaxCalls
  /\ calls' = calls + 1
  /\ \E port \in Ports : op' = [NoOp EXCEPT !.name = "startNgrokTunnel", !.port = port]
  /\ i' = 0
  /\ \E p \in StatusProcs :
       LET ts == StatusTunnels(p)
       IN  /\ statuses' = << ts >>
           /\ drift' = Drifted(ts)
           /\ IF Listed(ts)
              THEN /\ url' = PickUrl(ts)
                   /\ spawned' = 0
                   /\ launches' = launches
                   /\ tstate' = AfterListing
                   /\ anchor' = Anchored(ts)
                   /\ pc' = "idle"
              ELSE /\ url' = NullUrl
                   /\ spawned' = 1
                   /\ launches' = launches + 1
                   /\ tstate' = AfterLaunch
                   /\ anchor' = anchor
                   /\ pc' = IF TunnelLoopCond(0) THEN "ng_poll" ELSE "idle"
  /\ UNCHANGED serverVars
  /\ UNCHANGED webhookVars
  /\ UNCHANGED << configVars, mainVars, tmp, platform, strictCrumb, got, jobs0, credRet, jobRet, todo, console, kills, killed, apiReady, log, ret >>

\* one iteration of the wait loop: sleep, then the status query
StartNgrokTunnelPoll ==
  /\ pc = "ng_poll"
  /\ \E p \in StatusProcs :
       LET ts == StatusTunnels(p)
       IN  /\ statuses' = Append(statuses, ts)
           /\ drift' = Drifted(ts)
           /\ IF Listed(ts)
              THEN /\ url' = PickUrl(ts)
                   /\ tstate' = AfterListing
                   /\ anchor' = Anchored(ts)
                   /\ i' = i
                   /\ pc' = TunnelReturn
              ELSE /\ url' = NullUrl
                   /\ tstate' = tstate
                   /\ anchor' = anchor
                   /\ i' = i + 1
                   /\ pc' = IF TunnelLoopCond(i + 1) THEN "ng_poll" ELSE TunnelReturn
  /\ UNCHANGED serverVars
  /\ UNCHANGED webhookVars
  /\ UNCHANGED << configVars, mainVars, tmp, platform, strictCrumb, got, jobs0, credRet, jobRet, todo, console, spawned, launches, kills, killed,
                  calls, op, apiReady, log, ret >>

\* getNgrokUrl()
GetNgrokUrlCall ==
  /\ pc = "idle" /\ calls < MaxCalls
  /\ calls' = calls + 1
  /\ op' = [NoOp EXCEPT !.name = "getNgrokUrl"]
  /\ \E p \in StatusProcs :
       LET ts == StatusTunnels(p)
       IN  /\ statuses' = << ts >>
           /\ url' = IF Listed(ts) THEN PickUrl(ts) ELSE NullUrl
           /\ drift' = Drifted(ts)
  /\ spawned' = 0
  /\ UNCHANGED << tstate, anchor >>
  /\ UNCHANGED serverVars
  /\ UNCHANGED webhookVars
  /\ UNCHANGED << configVars, mainVars, tmp, platform, strictCrumb, got, jobs0, credRet, jobRet, todo, console, launches, kills, killed,
                  pc, i, apiReady, log, ret >>

\* the exit status of `pkill ngrok` / `taskkill /F /IM ngrok.exe`: 0 when a
\* process was killed, 1 / 128 when none has that name
KillExits == {0, 1, 128}

\* stopNgrok without its try / catch: a failing kill is thrown on
StopNgrokCall_Unguarded ==
  /\ pc = "idle" /\ calls < MaxCalls
  /\ calls' = calls + 1
  /\ op' = [NoOp EXCEPT !.name = "stopNgrok"]
  /\ kills' = kills + 1
  /\ \E exit \in KillExits :
       killed' = [exit |-> exit, threw |-> RunThrows(Proc(exit, JsString(FALSE, {})))]
  /\ statuses' = << >>
  /\ spawned' = 0
  /\ tstate' = AfterStop
  /\ anchor' = << >>
  /\ drift' = FALSE
  /\ UNCHANGED serverVars
  /\ UNCHANGED webhookVars
  /\ UNCHANGED << configVars, mainVars, tmp, platform, strictCrumb, got, jobs0, credRet, jobRet, todo, console, launches, url,
                  pc, i, apiReady, log, ret >>

\* stopNgrok(): taskkill / pkill by name; a failing kill is swallowed
StopNgrokCall ==
  /\ pc = "idle" /\ calls < MaxCalls
  /\ calls' = calls + 1
  /\ op' = [NoOp EXCEPT !.name = "stopNgrok"]
  /\ kills' = kills + 1
  /\ \E exit \in KillExits : killed' = [exit |-> exit, threw |-> FALSE]
  /\ statuses' = << >>
  /\ spawned' = 0
  /\ tstate' = AfterStop
  /\ anchor' = << >>
  /\ drift' = FALSE
  /\ UNCHANGED serverVars
  /\ UNCHANGED webhookVars
  /\ UNCHANGED << configVars, mainVars, tmp, platform, strictCrumb, got, jobs0, credRet, jobRet, todo, console, launches, url,
                  pc, i, apiReady, log, ret >>

\* ------------------------------------------------------------ config store
\* the keys of the document: those the scripts name, and one more that only
\* setConfigValue can set
Keys == {"ngrokAuthToken", "dockerHubUsername", "dockerHubPassword",
         "githubUsername", "githubToken", "other"}
\* a key the document does not have reads as undefined
Undefined == "undefined"
Values == {"v1", "v2"}
\* {}
EmptyConfig == [k \in Keys |-> Undefined]
\* no ~/.platfrix yet
NoStore == [dir |-> FALSE, file |-> FALSE, doc |-> EmptyConfig, parses |-> TRUE, dropped |-> {}]
\* a config.json that JSON.parse rejects: the keys in doc are in the file's
\* text, out of reach of the parser
Damaged(st) == [st EXCEPT !.parses = FALSE]

\* loadConfig(): the parsed document, {} when there is no config.json or
\* when reading or parsing it throws
\* a loader that recovers the keys of a document that does not parse
LoadConfig_Salvage(st) == IF st.file THEN st.doc ELSE EmptyConfig

LoadConfig(st) == IF st.file /\ st.parses THEN st.doc ELSE EmptyConfig
\* saveConfig(config): the directory made if need be, the document written whole
\* (dropped: the keys some write has taken out of the file so far)
SaveConfig(st, config) ==
  [dir |-> TRUE, file |-> TRUE, doc |-> config, parses |-> TRUE,
   dropped |-> st.dropped \cup { k \in Keys : st.doc[k] # Undefined /\ config[k] = Undefined }]
\* getSavedNgrokToken(): loadConfig().ngrokAuthToken || ""
GetSavedNgrokToken(st) ==
  IF LoadConfig(st)["ngrokAuthToken"] = Undefined THEN "" ELSE LoadConfig(st)["ngrokAuthToken"]
\* saveNgrokToken(token)
SaveNgrokToken(st, token) ==
  SaveConfig(st, [LoadConfig(st) EXCEPT !["ngrokAuthToken"] = token])
\* the store after configureNgrokAuth: saveNgrokToken runs when a typed
\* token was taken by the provider
AfterAuth(st, before, after) == IF after = before THEN st ELSE SaveNgrokToken(st, after)

\* saveConfig of the config commands: mkdirSync or writeFileSync may throw,
\* which is caught and answered with false
SaveOutcomes == {"saved", "mkdir-failed", "write-failed"}
TrySaveConfig(st, config, outcome) ==
  CASE outcome = "saved" -> SaveConfig(st, config)
    [] outcome = "write-failed" -> [st EXCEPT !.dir = TRUE]
    [] OTHER -> st
\* a failure of mkdirSync needs a directory to make
Possible(st, outcome) == outcome = "mkdir-failed" => ~st.dir

\* a config command: its name, the store it leaves, what it returns
ConfigCommand(name, key, st, ok) ==
  /\ pc = "idle" /\ calls < MaxCalls
  /\ calls' = calls + 1
  /\ op' = [NoOp EXCEPT !.name = name, !.id = key]
  /\ store' = st
  /\ ret' = ok
  /\ savedToken' = GetSavedNgrokToken(st)
  /\ Fresh
  /\ credRet' = FALSE /\ jobRet' = FALSE /\ log' = << >>
  /\ UNCHANGED serverVars
  /\ UNCHANGED tunnelVars
  /\ UNCHANGED << mainVars, tmp, platform, strictCrumb, got, jobs0, installed, authed, prompts,
                  tokenTries, hookCalls, hooks, returned, pc >>

\* loadConfig(), as `show` and every getter call it
LoadConfigCall ==
  /\ ConfigCommand("loadConfig", "", store, TRUE)
  /\ loaded' = LoadConfig(store)

\* setConfigValue writing the given key alone, the rest of the document dropped
SetConfigValueCall_Overwrite ==
  \E key \in Keys, value \in Values, outcome \in SaveOutcomes :
    /\ Possible(store, outcome)
    /\ ConfigCommand("setConfigValue", key,
                     TrySaveConfig(store, [EmptyConfig EXCEPT ![key] = value], outcome),
                     outcome = "saved")
    /\ loaded' = LoadConfig(store)

\* setConfigValue(key, value)
SetConfigValueCall ==
  \E key \in Keys, value \in Values, outcome \in SaveOutcomes :
    /\ Possible(store, outcome)
    /\ ConfigCommand("setConfigValue", key,
                     TrySaveConfig(store, [LoadConfig(store) EXCEPT ![key] = value], outcome),
                     outcome = "saved")
    /\ loaded' = LoadConfig(store)

\* saveDockerHubCredentials(username, password)
SaveDockerHubCredentialsCall ==
  \E username \in Values, password \in Values, outcome \in SaveOutcomes :
    /\ Possible(store, outcome)
    /\ ConfigCommand("saveDockerHubCredentials", "",
                     TrySaveConfig(store, [LoadConfig(store) EXCEPT !["dockerHubUsername"] = username,
                                                                    !["dockerHubPassword"] = password],
                                   outcome),
                     outcome = "saved")
    /\ loaded' = LoadConfig(store)

\* clearDockerHubCredentials()
ClearDockerHubCredentialsCall ==
  \E outcome \in SaveOutcomes :
    /\ Possible(store, outcome)
    /\ ConfigCommand("clearDockerHubCredentials", "",
                     TrySaveConfig(store, [LoadConfig(store) EXCEPT !["dockerHubUsername"] = Undefined,
                                                                    !["dockerHubPassword"] = Undefined],
                                   outcome),
                     outcome = "saved")
    /\ loaded' = LoadConfig(store)

\* saveGitHubCredentials(username, token)
SaveGitHubCredentialsCall ==
  \E username \in Values, token \in Values, outcome \in SaveOutcomes :
    /\ Possible(store, outcome)
    /\ ConfigCommand("saveGitHubCredentials", "",
                     TrySaveConfig(store, [LoadConfig(store) EXCEPT !["githubUsername"] = username,
                                                                    !["githubToken"] = token],
                                   outcome),
                     outcome = "saved")
    /\ loaded' = LoadConfig(store)

\* clearGitHubCredentials()
ClearGitHubCredentialsCall ==
  \E outcome \in SaveOutcomes :
    /\ Possible(store, outcome)
    /\ ConfigCommand("clearGitHubCredentials", "",
                     TrySaveConfig(store, [LoadConfig(store) EXCEPT !["githubUsername"] = Undefined,
                                                                    !["githubToken"] = Undefined],
                                   outcome),
                     outcome = "saved")
    /\ loaded' = LoadConfig(store)

\* ------------------------------------------- provider authentication
\* the tokens the interactive layer may answer the prompt with ("": none)
TypedTokens == {"", "t2"}
\* one `config add-authtoken <token>` and whether the provider took it
Try(token, ok) == [token |-> token, ok |-> ok]

\* a saved token the provider refused is dropped from the config store
ConfigureNgrokAuth_ForgetInvalid(ok) ==
  \E savedOk \in BOOLEAN, token \in TypedTokens, typedOk \in BOOLEAN :
    LET tried == IF savedToken # "" THEN << Try(savedToken, savedOk) >> ELSE << >>
    IN  IF savedToken # "" /\ savedOk
        THEN /\ tokenTries' = tried
             /\ prompts' = 0
             /\ authed' = TRUE
             /\ savedToken' = savedToken
             /\ ok = TRUE
        ELSE /\ prompts' = 1
             /\ IF token = ""
                THEN /\ tokenTries' = tried
                     /\ authed' = authed
                     /\ savedToken' = ""
                     /\ ok = FALSE
                ELSE /\ tokenTries' = Append(tried, Try(token, typedOk))
                     /\ authed' = (authed \/ typedOk)
                     /\ savedToken' = IF typedOk THEN token ELSE ""
                     /\ ok = typedOk

\* a typed token written to the config store before the provider has seen it
ConfigureNgrokAuth_SaveFirst(ok) ==
  \E savedOk \in BOOLEAN, token \in TypedTokens, typedOk \in BOOLEAN :
    LET tried == IF savedToken # "" THEN << Try(savedToken, savedOk) >> ELSE << >>
    IN  IF savedToken # "" /\ savedOk
        THEN /\ tokenTries' = tried
             /\ prompts' = 0
             /\ authed' = TRUE
             /\ savedToken' = savedToken
             /\ ok = TRUE
        ELSE /\ prompts' = 1
             /\ IF token = ""
                THEN /\ tokenTries' = tried
                     /\ UNCHANGED << authed, savedToken >>
                     /\ ok = FALSE
                ELSE /\ tokenTries' = Append(tried, Try(token, typedOk))
                     /\ authed' = (authed \/ typedOk)
                     /\ savedToken' = token
                     /\ ok = typedOk

\* configureNgrokAuth(rl), returning ok.  A saved token is handed to the
\* provider first; the prompt follows when there is none or the provider
\* refuses it.  A typed token is saved once the provider has taken it.
ConfigureNgrokAuth(ok) ==
  \E savedOk \in BOOLEAN, token \in TypedTokens, typedOk \in BOOLEAN :
    LET tried == IF savedToken # "" THEN << Try(savedToken, savedOk) >> ELSE << >>
    IN  IF savedToken # "" /\ savedOk
        THEN /\ tokenTries' = tried
             /\ prompts' = 0
             /\ authed' = TRUE
             /\ savedToken' = savedToken
             /\ ok = TRUE
        ELSE /\ prompts' = 1
             /\ IF token = ""
                THEN /\ tokenTries' = tried
                     /\ UNCHANGED << authed, savedToken >>
                     /\ ok = FALSE
                ELSE /\ tokenTries' = Append(tried, Try(token, typedOk))
                     /\ authed' = (authed \/ typedOk)
                     /\ savedToken' = IF typedOk THEN token ELSE savedToken
                     /\ ok = typedOk

\* a direct call of the exported configureNgrokAuth
ConfigureNgrokAuthCall ==
  /\ pc = "idle" /\ calls < MaxSetups
  /\ calls' = calls + 1
  /\ op' = [NoOp EXCEPT !.name = "configureNgrokAuth", !.rl = TRUE]
  /\ \E ok \in BOOLEAN : ConfigureNgrokAuth(ok) /\ ret' = ok
  /\ store' = AfterAuth(store, savedToken, savedToken')
  /\ hookCalls' = 0 /\ returned' = NoResult
  /\ Fresh
  /\ credRet' = FALSE /\ jobRet' = FALSE /\ log' = << >>
  /\ UNCHANGED serverVars
  /\ UNCHANGED tunnelVars
  /\ UNCHANGED << loaded, mainVars, tmp, platform, strictCrumb, got, jobs0, installed, hooks, pc >>

\* ------------------------------------------------------- webhook registrar
\* jenkinsUrl.replace(/\/$/, "")
StripSlash(u) == IF Len(u) > 0 /\ u[Len(u)] = "/" THEN SubSeq(u, 1, Len(u) - 1) ELSE u
\* `${...}/github-webhook/`
HookUrl(u) == u \o << "/github-webhook/" >>
\* the URLs setupWebhook is called with (the empty one: none given)
JenkinsUrls == { << >>, << "http://", "j" >>, << "http://", "j", "/" >> }
\* One `gh api repos/<repo>/hooks -X POST`: the command does not get as far
\* as a request (the shell or gh fails), or the request reaches the hosting
\* platform, which creates the hook (exit 0) or refuses it (exit 1)
GhOutcomes == { "norequest", "created", "refused" }
Requests(o) == IF o = "norequest" THEN 0 ELSE 1

\* setupWebhook({ repoFullName, jenkinsUrl }), returning r
SetupWebhook(jenkinsUrl, r) ==
  IF jenkinsUrl = << >>
  THEN /\ r = [NoResult EXCEPT !.kind = "setupWebhook", !.skipped = TRUE]
       /\ UNCHANGED << hookCalls, hooks >>
  ELSE LET done == [NoResult EXCEPT !.kind = "setupWebhook",
                                    !.webhookUrl = HookUrl(StripSlash(jenkinsUrl))]
       IN  \E first \in GhOutcomes, second \in GhOutcomes :
             IF first = "created"
             THEN /\ hookCalls' = 1
                  /\ hooks' = hooks + 1
                  /\ r = [done EXCEPT !.created = TRUE]
             ELSE /\ hookCalls' = Requests(first) + Requests(second)
                  /\ IF second = "created"
                     THEN /\ hooks' = hooks + 1
                          /\ r = [done EXCEPT !.created = TRUE]
                     ELSE /\ hooks' = hooks
                          /\ r = [done EXCEPT !.created = FALSE, !.manual = TRUE]

\* the objects setupWebhook may return
WebhookResults ==
  { [NoResult EXCEPT !.kind = "setupWebhook", !.skipped = TRUE] }
  \cup { [NoResult EXCEPT !.kind = "setupWebhook", !.webhookUrl = HookUrl(StripSlash(u)),
                          !.created = c, !.manual = ~c] :
           u \in (JenkinsUrls \ {<< >>}) \cup { e.public_url : e \in TunnelEntries },
           c \in BOOLEAN }

\* a direct call of the exported setupWebhook
SetupWebhookCall ==
  /\ pc = "idle" /\ calls < MaxSetups
  /\ calls' = calls + 1
  /\ \E u \in JenkinsUrls :
       /\ op' = [NoOp EXCEPT !.name = "setupWebhook", !.full = "o/r", !.jenkinsUrl = u]
       /\ \E r \in WebhookResults : SetupWebhook(u, r) /\ returned' = r
  /\ prompts' = 0 /\ tokenTries' = << >>
  /\ Fresh
  /\ credRet' = FALSE /\ jobRet' = FALSE /\ ret' = FALSE /\ log' = << >>
  /\ UNCHANGED serverVars
  /\ UNCHANGED tunnelVars
  /\ UNCHANGED << configVars, mainVars, tmp, platform, strictCrumb, got, jobs0, installed, authed, savedToken, pc >>

\* ---------------------------------------------------- setupNgrokAndWebhook
Failure(reason) == [NoResult EXCEPT !.kind = "setupNgrokAndWebhook", !.reason = reason]

\* setupNgrokAndWebhook({ repoFullName, jenkinsPort, rl }) up to the call of
\* startNgrokTunnel: the provider is installed if need be, then authenticated
SetupNgrokAndWebhookCall ==
  /\ pc = "idle" /\ calls < MaxSetups
  /\ calls' = calls + 1
  /\ \E f \in {"", "o/r"}, port \in Ports, rl \in BOOLEAN :
       op' = [NoOp EXCEPT !.name = "setupNgrokAndWebhook", !.full = f, !.port = port, !.rl = rl]
  /\ hookCalls' = 0
  /\ \E found \in BOOLEAN :
       /\ installed' = (installed \/ found)
       /\ IF ~installed'
          THEN /\ returned' = Failure("install_failed")
               /\ pc' = "idle"
               /\ prompts' = 0 /\ tokenTries' = << >>
               /\ UNCHANGED << authed, savedToken >>
          ELSE IF authed
               THEN /\ returned' = NoResult
                    /\ pc' = "nw_tunnel"
                    /\ prompts' = 0 /\ tokenTries' = << >>
                    /\ UNCHANGED << authed, savedToken >>
               ELSE IF ~op'.rl
                    THEN /\ returned' = Failure("auth_required")
                         /\ pc' = "idle"
                         /\ prompts' = 0 /\ tokenTries' = << >>
                         /\ UNCHANGED << authed, savedToken >>
                    ELSE \E ok \in BOOLEAN :
                           /\ ConfigureNgrokAuth(ok)
                           /\ returned' = IF ok THEN NoResult ELSE Failure("auth_failed")
                           /\ pc' = IF ok THEN "nw_tunnel" ELSE "idle"
  /\ store' = AfterAuth(store, savedToken, savedToken')
  /\ Fresh
  /\ credRet' = FALSE /\ jobRet' = FALSE /\ ret' = FALSE /\ log' = << >>
  /\ UNCHANGED serverVars
  /\ UNCHANGED tunnelVars
  /\ UNCHANGED << loaded, mainVars, tmp, platform, strictCrumb, got, jobs0, hooks >>

\* startNgrokTunnel(jenkinsPort) called by setupNgrokAndWebhook, up to the
\* first sleep: the reuse check, else the launch
SetupNgrokTunnelStart ==
  /\ pc = "nw_tunnel"
  /\ i' = 0
  /\ \E p \in StatusProcs :
       LET ts == StatusTunnels(p)
       IN  /\ statuses' = << ts >>
           /\ drift' = Drifted(ts)
           /\ IF Listed(ts)
              THEN /\ url' = PickUrl(ts)
                   /\ spawned' = 0
                   /\ launches' = launches
                   /\ tstate' = AfterListing
                   /\ anchor' = Anchored(ts)
                   /\ pc' = "nw_hook"
              ELSE /\ url' = NullUrl
                   /\ spawned' = 1
                   /\ launches' = launches + 1
                   /\ tstate' = AfterLaunch
                   /\ anchor' = anchor
                   /\ pc' = IF TunnelLoopCond(0) THEN "ng_poll" ELSE "nw_hook"
  /\ UNCHANGED serverVars
  /\ UNCHANGED webhookVars
  /\ UNCHANGED << configVars, mainVars, tmp, platform, strictCrumb, got, jobs0, credRet, jobRet, todo, console, kills, killed, calls, op,
                  apiReady, log, ret >>

\* setupNgrokAndWebhook reporting a failure when the hook was not created
SetupNgrokWebhook_FailOnHook ==
  /\ pc = "nw_hook"
  /\ pc' = "idle"
  /\ IF url = NullUrl
     THEN /\ returned' = Failure("tunnel_failed")
          /\ UNCHANGED << hookCalls, hooks >>
     ELSE LET success == [NoResult EXCEPT !.kind = "setupNgrokAndWebhook", !.success = TRUE,
                                          !.ngrokUrl = url, !.webhookUrl = HookUrl(url)]
          IN  IF op.full # ""
              THEN \E r \in WebhookResults :
                     /\ SetupWebhook(url, r)
                     /\ returned' = IF r.created
                                    THEN [success EXCEPT !.webhookCreated = TRUE]
                                    ELSE Failure("webhook_failed")
              ELSE /\ returned' = success
                   /\ UNCHANGED << hookCalls, hooks >>
  /\ UNCHANGED serverVars
  /\ UNCHANGED tunnelVars
  /\ UNCHANGED << configVars, mainVars, tmp, platform, strictCrumb, got, jobs0, installed, authed, savedToken, prompts,
                  tokenTries, credRet, jobRet, todo, console, calls, op, i, apiReady, log, ret >>

\* setupNgrokAndWebhook registering the webhook whether or not a repository was named
SetupNgrokWebhook_AnyRepo ==
  /\ pc = "nw_hook"
  /\ pc' = "idle"
  /\ IF url = NullUrl
     THEN /\ returned' = Failure("tunnel_failed")
          /\ UNCHANGED << hookCalls, hooks >>
     ELSE LET success == [NoResult EXCEPT !.kind = "setupNgrokAndWebhook", !.success = TRUE,
                                          !.ngrokUrl = url, !.webhookUrl = HookUrl(url)]
          IN  \E r \in WebhookResults :
                /\ SetupWebhook(url, r)
                /\ returned' = [success EXCEPT !.webhookCreated = r.created]
  /\ UNCHANGED serverVars
  /\ UNCHANGED tunnelVars
  /\ UNCHANGED << configVars, mainVars, tmp, platform, strictCrumb, got, jobs0, installed, authed, savedToken, prompts,
                  tokenTries, credRet, jobRet, todo, console, calls, op, i, apiReady, log, ret >>

\* setupNgrokAndWebhook after startNgrokTunnel: no URL is a failure; else
\* the webhook, when a repository was named, and the success object
SetupNgrokWebhook ==
  /\ pc = "nw_hook"
  /\ pc' = "idle"
  /\ IF url = NullUrl
     THEN /\ returned' = Failure("tunnel_failed")
          /\ UNCHANGED << hookCalls, hooks >>
     ELSE LET success == [NoResult EXCEPT !.kind = "setupNgrokAndWebhook", !.success = TRUE,
                                          !.ngrokUrl = url, !.webhookUrl = HookUrl(url)]
          IN  IF op.full # ""
              THEN \E r \in WebhookResults :
                     /\ SetupWebhook(url, r)
                     /\ returned' = [success EXCEPT !.webhookCreated = r.created]
              ELSE /\ returned' = success
                   /\ UNCHANGED << hookCalls, hooks >>
  /\ UNCHANGED serverVars
  /\ UNCHANGED tunnelVars
  /\ UNCHANGED << configVars, mainVars, tmp, platform, strictCrumb, got, jobs0, installed, authed, savedToken, prompts,
                  tokenTries, credRet, jobRet, todo, console, calls, op, i, apiReady, log, ret >>

\* ------------------------------------------------------------ orchestrator
\* for (let i = 0; i < maxAttempts; i++) in waitForJenkins, maxAttempts = 180
StartAttempts == 180

\* the local files a step refuses to run without
RequiredFiles == {"docker-compose.yml", "Jenkinsfile"}

\* a trimmed answer as one string
RECURSIVE Text(_)
Text(s) == IF s = << >> THEN "" ELSE Head(s) \o Text(Tail(s))
\* const repoFullName = `${owner}/${name}`
RepoFullName(owner, name) == owner \o "/" \o Text(name)

\* what the user answers to main()'s questions
RepoNameAnswers == {NoName, <<"a">>}
Owners == {"o"}

\* catch (err) { console.error("\n❌ Error:", err.message); process.exit(1); }
Catch(message) ==
  /\ thrown' = message
  /\ printed' = printed \cup {"error"}
  /\ exitCode' = 1
  /\ mpc' = "exited"

\* process.exit(code) outside the catch block, after printing a message
Exit(message, code) ==
  /\ printed' = printed \cup {message}
  /\ exitCode' = code
  /\ mpc' = "exited"
  /\ thrown' = thrown

\* startJenkins not yet called
NoJenkins == [ups |-> 0, status |-> "", result |-> "none"]

\* checkDocker(), and startDockerDesktop() when it is down: false off win32
DockerUp(docker, started) == docker \/ (platform = "win32" /\ started)

\* ensureGitHubCLI: "ok", or the exit it takes when gh is not installed
GhStates == {"ok", "absent", "install-failed"}

\* main() up to the confirmation: prerequisites and the user's answers
MainPrerequisites ==
  /\ mpc = "prereq" /\ pc = "idle"
  /\ \E docker \in BOOLEAN, started \in BOOLEAN, gh \in GhStates, login \in BOOLEAN,
        repoName \in RepoNameAnswers, owner \in Owners,
        u \in {"", "u"}, p \in {"", "p"}, proceed \in BOOLEAN :
       IF ~DockerUp(docker, started)
       THEN Exit("docker-down", 1) /\ op' = op
       ELSE IF gh = "absent" /\ platform = "win32"
       THEN Exit("restart-terminal", 0) /\ op' = op
       ELSE IF gh # "ok"
       THEN Exit("gh-missing", 1) /\ op' = op
       ELSE IF ~login
       THEN Catch("gh") /\ op' = op
       ELSE IF repoName = NoName
       THEN Catch("Repository name is required") /\ op' = op
       ELSE IF ~proceed
       THEN Exit("cancelled", 0) /\ op' = op
       ELSE /\ op' = [NoOp EXCEPT !.name = "main", !.job = repoName,
                                  !.full = RepoFullName(owner, repoName),
                                  !.user = u, !.pass = p]
            /\ mpc' = "startJenkins"
            /\ UNCHANGED << printed, exitCode, thrown >>
  /\ UNCHANGED << steps, files, container, scaffold, jenkins, repos, pushed >>
  /\ UNCHANGED serverVars
  /\ UNCHANGED tunnelVars
  /\ UNCHANGED webhookVars
  /\ UNCHANGED << configVars, tmp, platform, strictCrumb, got, jobs0, credRet, jobRet, todo, console, calls, pc, i,
                  apiReady, log, ret >>

\* the catch block taken to be absent: the run goes on after an error
MainStartJenkins_NoAbort ==
  /\ mpc = "startJenkins" /\ pc = "idle"
  /\ steps' = Append(steps, "startJenkins")
  /\ \E docker \in BOOLEAN, started \in BOOLEAN, up \in BOOLEAN :
       IF ~DockerUp(docker, started)
       THEN /\ Catch("Docker is not running") /\ UNCHANGED << container, i >>
            /\ jenkins' = [NoJenkins EXCEPT !.result = "threw"]
       ELSE IF container
       THEN /\ mpc' = "createRepo"
            /\ jenkins' = [NoJenkins EXCEPT !.result = "alreadyRunning"]
            /\ UNCHANGED << container, i, printed, exitCode, thrown >>
       ELSE IF "docker-compose.yml" \notin files
       THEN /\ thrown' = "docker-compose.yml not found"
            /\ mpc' = "createRepo"
            /\ jenkins' = [NoJenkins EXCEPT !.result = "threw"]
            /\ UNCHANGED << container, i, printed, exitCode >>
       ELSE IF ~up
       THEN /\ Catch("docker-compose") /\ UNCHANGED << container, i >>
            /\ jenkins' = [NoJenkins EXCEPT !.ups = 1, !.result = "threw"]
       ELSE /\ container' = TRUE
            /\ jenkins' = [NoJenkins EXCEPT !.ups = 1]
            /\ i' = 0
            /\ mpc' = "waiting"
            /\ UNCHANGED << printed, exitCode, thrown >>
  /\ UNCHANGED << files, scaffold, repos, pushed >>
  /\ UNCHANGED serverVars
  /\ UNCHANGED tunnelVars
  /\ UNCHANGED webhookVars
  /\ UNCHANGED << configVars, tmp, platform, strictCrumb, got, jobs0, credRet, jobRet, todo, console, calls, pc, op,
                  apiReady, log, ret >>

\* STEP 1/4, startJenkins({ skipIfRunning: true }) up to waitForJenkins
MainStartJenkins ==
  /\ mpc = "startJenkins" /\ pc = "idle"
  /\ steps' = Append(steps, "startJenkins")
  /\ \E docker \in BOOLEAN, started \in BOOLEAN, up \in BOOLEAN :
       IF ~DockerUp(docker, started)
       THEN /\ Catch("Docker is not running") /\ UNCHANGED << container, i >>
            /\ jenkins' = [NoJenkins EXCEPT !.result = "threw"]
       ELSE IF container
       THEN /\ mpc' = "createRepo"
            /\ jenkins' = [NoJenkins EXCEPT !.result = "alreadyRunning"]
            /\ UNCHANGED << container, i, printed, exitCode, thrown >>
       ELSE IF "docker-compose.yml" \notin files
       THEN /\ Catch("docker-compose.yml not found") /\ UNCHANGED << container, i >>
            /\ jenkins' = [NoJenkins EXCEPT !.result = "threw"]
       ELSE IF ~up
       THEN /\ Catch("docker-compose") /\ UNCHANGED << container, i >>
            /\ jenkins' = [NoJenkins EXCEPT !.ups = 1, !.result = "threw"]
       ELSE /\ container' = TRUE
            /\ jenkins' = [NoJenkins EXCEPT !.ups = 1]
            /\ i' = 0
            /\ mpc' = "waiting"
            /\ UNCHANGED << printed, exitCode, thrown >>
  /\ UNCHANGED << files, scaffold, repos, pushed >>
  /\ UNCHANGED serverVars
  /\ UNCHANGED tunnelVars
  /\ UNCHANGED webhookVars
  /\ UNCHANGED << configVars, tmp, platform, strictCrumb, got, jobs0, credRet, jobRet, todo, console, calls, pc, op,
                  apiReady, log, ret >>

\* the answers of the login page to waitForJenkins ("": the request threw)
LoginCodes == {"200", "403", "503", "000", ""}
\* a login page that asks for credentials not counted as ready
LoginReady_OkOnly(statusCode) == statusCode = "200"

\* statusCode.includes("200") || statusCode.includes("403")
LoginReady(statusCode) == statusCode = "200" \/ statusCode = "403"

\* one iteration of waitForJenkins; after the last one startJenkins throws
MainWaitForJenkins ==
  /\ mpc = "waiting" /\ pc = "idle"
  /\ \E statusCode \in LoginCodes :
       IF LoginReady(statusCode)
       THEN /\ mpc' = "createRepo"
            /\ jenkins' = [jenkins EXCEPT !.status = statusCode, !.result = "started"]
            /\ UNCHANGED << i, printed, exitCode, thrown >>
       ELSE /\ i' = i + 1
            /\ IF i + 1 < StartAttempts
               THEN /\ jenkins' = [jenkins EXCEPT !.status = statusCode]
                    /\ UNCHANGED << mpc, printed, exitCode, thrown >>
               ELSE /\ jenkins' = [jenkins EXCEPT !.status = statusCode, !.result = "threw"]
                    /\ Catch("Jenkins failed to start within timeout")
  /\ UNCHANGED << steps, files, container, scaffold, repos, pushed >>
  /\ UNCHANGED serverVars
  /\ UNCHANGED tunnelVars
  /\ UNCHANGED webhookVars
  /\ UNCHANGED << configVars, tmp, platform, strictCrumb, got, jobs0, credRet, jobRet, todo, console, calls, pc, op,
                  apiReady, log, ret >>

\* where createAngularRepo stops: a validation, the scaffold (project
\* generation, npm, git), `gh repo create`, `gh repo clone`, or nowhere
RepoFailures == {"none", "output-dir", "final-dir", "scaffold", "create", "clone"}

\* nothing scaffolded, no temp directory
NoScaffold == [tempDir |-> FALSE, did |-> << >>]
\* what createAngularRepo has done when it leaves its try block at failAt
Scaffolded(failAt) ==
  CASE failAt = "scaffold" -> << "mkdir" >>
    [] failAt = "create"   -> << "mkdir", "scaffold" >>
    [] failAt = "clone"    -> << "mkdir", "scaffold", "create" >>
    [] OTHER               -> << "mkdir", "scaffold", "create", "clone" >>
\* finally { try { fs.rmSync(tempDir, ...) } catch { } }: the removal may fail
Finally(did, removed) == [tempDir |-> ~removed, did |-> Append(did, "rm")]

\* createAngularRepo removing its temp directory only when it succeeded
MainCreateRepo_NoFinally ==
  /\ mpc = "createRepo" /\ pc = "idle"
  /\ steps' = Append(steps, "createAngularRepo")
  /\ \E seen \in (IF op.full \in repos THEN BOOLEAN ELSE {FALSE}),
        failAt \in (IF op.full \in repos THEN RepoFailures \ {"none", "clone"} ELSE RepoFailures),
        removed \in BOOLEAN :
       IF failAt \in {"output-dir", "final-dir"}
       THEN Catch(failAt) /\ repos' = repos /\ scaffold' = NoScaffold
       ELSE IF seen
       THEN Catch("already exists on GitHub") /\ repos' = repos /\ scaffold' = NoScaffold
       ELSE IF failAt \in {"scaffold", "create"}
       THEN /\ Catch(failAt) /\ repos' = repos
            /\ scaffold' = [tempDir |-> TRUE, did |-> Scaffolded(failAt)]
       ELSE IF failAt = "clone"
       THEN /\ Catch(failAt) /\ repos' = repos \cup {op.full}
            /\ scaffold' = [tempDir |-> TRUE, did |-> Scaffolded(failAt)]
       ELSE /\ repos' = repos \cup {op.full}
            /\ scaffold' = Finally(Scaffolded(failAt), removed)
            /\ mpc' = "copyPipeline"
            /\ UNCHANGED << printed, exitCode, thrown >>
  /\ UNCHANGED << files, container, jenkins, pushed >>
  /\ UNCHANGED serverVars
  /\ UNCHANGED tunnelVars
  /\ UNCHANGED webhookVars
  /\ UNCHANGED << configVars, tmp, platform, strictCrumb, got, jobs0, credRet, jobRet, todo, console, calls, pc, op, i,
                  apiReady, log, ret >>

\* STEP 2/4, createAngularRepo: the two directory checks, then `gh repo
\* view`, which sees an existing repository when it answers; then the temp
\* directory, the scaffold, `gh repo create` (which fails on an existing
\* repository) and the clone, the temp directory removed in the finally block
MainCreateRepo ==
  /\ mpc = "createRepo" /\ pc = "idle"
  /\ steps' = Append(steps, "createAngularRepo")
  /\ \E seen \in (IF op.full \in repos THEN BOOLEAN ELSE {FALSE}),
        failAt \in (IF op.full \in repos THEN RepoFailures \ {"none", "clone"} ELSE RepoFailures),
        removed \in BOOLEAN :
       IF failAt \in {"output-dir", "final-dir"}
       THEN Catch(failAt) /\ repos' = repos /\ scaffold' = NoScaffold
       ELSE IF seen
       THEN Catch("already exists on GitHub") /\ repos' = repos /\ scaffold' = NoScaffold
       ELSE IF failAt \in {"scaffold", "create"}
       THEN /\ Catch(failAt) /\ repos' = repos
            /\ scaffold' = Finally(Scaffolded(failAt), removed)
       ELSE IF failAt = "clone"
       THEN /\ Catch(failAt) /\ repos' = repos \cup {op.full}
            /\ scaffold' = Finally(Scaffolded(failAt), removed)
       ELSE /\ repos' = repos \cup {op.full}
            /\ scaffold' = Finally(Scaffolded(failAt), removed)
            /\ mpc' = "copyPipeline"
            /\ UNCHANGED << printed, exitCode, thrown >>
  /\ UNCHANGED << files, container, jenkins, pushed >>
  /\ UNCHANGED serverVars
  /\ UNCHANGED tunnelVars
  /\ UNCHANGED webhookVars
  /\ UNCHANGED << configVars, tmp, platform, strictCrumb, got, jobs0, credRet, jobRet, todo, console, calls, pc, op, i,
                  apiReady, log, ret >>

\* a failed copyPipeline undoing the step before it: the repository deleted
MainCopyPipeline_Rollback ==
  /\ mpc = "copyPipeline" /\ pc = "idle"
  /\ steps' = Append(steps, "copyPipeline")
  /\ \E failAt \in {"none", "copy", "commit", "push"} :
       IF "Jenkinsfile" \notin files
       THEN Catch("Jenkinsfile not found") /\ pushed' = pushed /\ repos' = repos \ {op.full}
       ELSE IF failAt # "none"
       THEN Catch(failAt) /\ pushed' = pushed /\ repos' = repos \ {op.full}
       ELSE /\ pushed' = pushed \cup {op.full}
            /\ repos' = repos
            /\ mpc' = "setupJenkins"
            /\ UNCHANGED << printed, exitCode, thrown >>
  /\ UNCHANGED << files, container, scaffold, jenkins >>
  /\ UNCHANGED serverVars
  /\ UNCHANGED tunnelVars
  /\ UNCHANGED webhookVars
  /\ UNCHANGED << configVars, tmp, platform, strictCrumb, got, jobs0, credRet, jobRet, todo, console, calls, pc, op, i,
                  apiReady, log, ret >>

\* STEP 3/4, copyPipeline: the Jenkinsfile is required; the copy, the
\* commit and the push may each throw
MainCopyPipeline ==
  /\ mpc = "copyPipeline" /\ pc = "idle"
  /\ steps' = Append(steps, "copyPipeline")
  /\ \E failAt \in {"none", "copy", "commit", "push"} :
       IF "Jenkinsfile" \notin files
       THEN Catch("Jenkinsfile not found") /\ pushed' = pushed
       ELSE IF failAt # "none"
       THEN Catch(failAt) /\ pushed' = pushed
       ELSE /\ pushed' = pushed \cup {op.full}
            /\ mpc' = "setupJenkins"
            /\ UNCHANGED << printed, exitCode, thrown >>
  /\ UNCHANGED << files, container, scaffold, jenkins, repos >>
  /\ UNCHANGED serverVars
  /\ UNCHANGED tunnelVars
  /\ UNCHANGED webhookVars
  /\ UNCHANGED << configVars, tmp, platform, strictCrumb, got, jobs0, credRet, jobRet, todo, console, calls, pc, op, i,
                  apiReady, log, ret >>

\* STEP 4/4, await setupJenkins({ repoName, repoFullName, dockerHubUsername,
\* dockerHubPassword }): the call; its steps are those of setupJenkins
MainSetupJenkins ==
  /\ mpc = "setupJenkins" /\ pc = "idle"
  /\ steps' = Append(steps, "setupJenkins")
  /\ mpc' = "configuring"
  /\ calls' = calls + 1
  /\ op' = [op EXCEPT !.name = "setupJenkins"]
  /\ Fresh
  /\ log' = << >>
  /\ credRet' = FALSE /\ jobRet' = FALSE /\ ret' = FALSE
  /\ pc' = IF ReadyLoopCond(0) THEN "sj_poll" ELSE "sj_gate"
  /\ UNCHANGED << exitCode, printed, thrown, files, container, scaffold, jenkins, repos, pushed >>
  /\ UNCHANGED serverVars
  /\ UNCHANGED tunnelVars
  /\ UNCHANGED webhookVars
  /\ UNCHANGED << configVars, tmp, platform, strictCrumb, got, jobs0 >>

\* the messages main() prints once setupJenkins has returned
Report(o) ==
  {"SETUP COMPLETE", "Pipeline job created"}
    \cup (IF o.user # "" THEN {"Docker Hub credentials configured"} ELSE {})

\* after `await setupJenkins(...)`, whose value is dropped: the final
\* report, and main() returns
MainDone ==
  /\ mpc = "configuring" /\ pc = "idle"
  /\ printed' = printed \cup Report(op)
  /\ exitCode' = 0
  /\ mpc' = "exited"
  /\ thrown' = thrown
  /\ UNCHANGED << steps, files, container, scaffold, jenkins, repos, pushed >>
  /\ UNCHANGED serverVars
  /\ UNCHANGED tunnelVars
  /\ UNCHANGED webhookVars
  /\ UNCHANGED << configVars, tmp, platform, strictCrumb, got, jobs0, credRet, jobRet, todo, console, calls, pc, op, i,
                  apiReady, log, ret >>

\* ------------------------------------------------------------ specifications
\* main() is not run: the functions are called one by one
NoMain ==
  /\ mpc = "off"
  /\ scaffold = NoScaffold
  /\ jenkins = NoJenkins
  /\ files = RequiredFiles
  /\ container = TRUE
  /\ repos = {}

\* the state of the control plane, the tunnel and the thread of control
ClientInit ==
  /\ platform \in Platforms
  /\ strictCrumb \in BOOLEAN
  /\ jobs \in [JobNames -> {NoJob, StaleJob}]
  /\ jobs0 = jobs
  /\ createPosts = [n \in JobNames |-> 0]
  /\ jobCalls = [n \in JobNames |-> 0]
  /\ credPosts = 0
  /\ deletePosts = 0
  /\ credRet = FALSE
  /\ jobRet = FALSE
  /\ exist = "none"
  /\ getFailed = FALSE
  /\ todo = << >>
  /\ console = << >>
  /\ statuses = << >>
  /\ spawned = 0
  /\ launches = 0
  /\ kills = 0
  /\ killed = [exit |-> -1, threw |-> FALSE]
  /\ url = NullUrl
  /\ tstate = "not-started"
  /\ anchor = << >>
  /\ drift = FALSE
  /\ prompts = 0
  /\ tokenTries = << >>
  /\ hookCalls = 0
  /\ hooks = 0
  /\ returned = NoResult
  /\ got = [status |-> 0, body |-> JsNull]
  /\ tmp = NoTemp
  /\ loaded = EmptyConfig
  /\ exitCode = -1
  /\ printed = {}
  /\ steps = << >>
  /\ thrown = "none"
  /\ pushed = {}
  /\ calls = 0
  /\ pc = "idle"
  /\ op = NoOp
  /\ i = 0
  /\ apiReady = FALSE
  /\ log = << >>
  /\ ret = FALSE

\* the provider installed and authenticated, no token saved: the calls of
\* the control-plane client and of the tunnel manager do not look at these
Init ==
  /\ ClientInit
  /\ installed = TRUE
  /\ authed = TRUE
  /\ savedToken = ""
  /\ store = NoStore
  /\ NoMain

\* the control-plane client called operation by operation
Next ==
  \/ AddCredentialCall
  \/ CreatePipelineJobCall
  \/ ClearJobsCall
  \/ ClearJobsDelete
  \/ JenkinsApiGetCall
  \/ HttpGetCall

Spec == Init /\ [][Next]_vars

\* setupJenkins: readiness polling, then provisioning
SetupNext ==
  \/ SetupJenkinsCall
  \/ SetupJenkinsProbe
  \/ SetupJenkinsCredential
  \/ SetupJenkinsJob

\* setupJenkins takes no branch on the platform and names one job
SetupInit == Init /\ platform = "linux" /\ jobs[<<"a", " ", "b">>] = NoJob

SetupSpec == SetupInit /\ [][SetupNext]_vars

\* the tunnel manager
TunnelNext ==
  \/ StartNgrokTunnelCall
  \/ StartNgrokTunnelPoll
  \/ GetNgrokUrlCall
  \/ StopNgrokCall

\* the control plane plays no part in the tunnel manager
TunnelInit == Init /\ strictCrumb /\ jobs = [n \in JobNames |-> NoJob]

TunnelSpec == TunnelInit /\ [][TunnelNext]_vars

\* provider authentication, tunnel and webhook registration
WebhookNext ==
  \/ ConfigureNgrokAuthCall
  \/ SetupWebhookCall
  \/ SetupNgrokAndWebhookCall
  \/ SetupNgrokTunnelStart
  \/ StartNgrokTunnelPoll
  \/ SetupNgrokWebhook

\* the control plane plays no part here either, nor does the platform
WebhookInit ==
  /\ ClientInit
  /\ platform = "linux" /\ strictCrumb /\ jobs = [n \in JobNames |-> NoJob]
  /\ installed \in BOOLEAN
  /\ authed \in BOOLEAN
  /\ savedToken \in {"", "t1"}
  /\ store = (IF savedToken = "" THEN NoStore ELSE SaveNgrokToken(NoStore, savedToken))
  /\ NoMain

WebhookSpec == WebhookInit /\ [][WebhookNext]_vars

\* one run of the orchestrator
MainNext ==
  \/ MainPrerequisites
  \/ MainStartJenkins
  \/ MainWaitForJenkins
  \/ MainCreateRepo
  \/ MainCopyPipeline
  \/ MainSetupJenkins
  \/ SetupJenkinsProbe
  \/ SetupJenkinsCredential
  \/ SetupJenkinsJob
  \/ MainDone

\* main() about to run, in an installation and against a hosting platform
\* and a control plane that are in any state
MainInit ==
  /\ ClientInit
  /\ scaffold = NoScaffold
  /\ jenkins = NoJenkins
  /\ jobs[<<"a", " ", "b">>] = NoJob
  /\ installed = TRUE /\ authed = TRUE /\ savedToken = "" /\ store = NoStore
  /\ mpc = "prereq"
  /\ files \in SUBSET RequiredFiles
  /\ container \in BOOLEAN
  /\ repos \in SUBSET {RepoFullName("o", <<"a">>)}

MainSpec == MainInit /\ [][MainNext]_vars

\* the config commands and the one tunnel-manager operation that saves
ConfigNext ==
  \/ LoadConfigCall
  \/ SetConfigValueCall
  \/ SaveDockerHubCredentialsCall
  \/ ClearDockerHubCredentialsCall
  \/ SaveGitHubCredentialsCall
  \/ ClearGitHubCredentialsCall
  \/ ConfigureNgrokAuthCall

\* no config store yet, one with an empty document, one with every key
\* set, or one whose document does not parse
ConfigInit ==
  /\ ClientInit
  /\ platform = "linux" /\ strictCrumb /\ jobs = [n \in JobNames |-> NoJob]
  /\ installed = TRUE /\ authed = FALSE
  /\ store \in {NoStore, [NoStore EXCEPT !.dir = TRUE], SaveConfig(NoStore, EmptyConfig),
                SaveConfig(NoStore, [k \in Keys |-> "v1"]),
                Damaged(SaveConfig(NoStore, [k \in Keys |-> "v1"]))}
  /\ savedToken = GetSavedNgrokToken(store)
  /\ NoMain

ConfigSpec == ConfigInit /\ [][ConfigNext]_vars

\* ==================================================================== claims
\* the requests of the log that are POSTs
Posts == { k \in 1..Len(log) : log[k].kind = "POST" }
\* the liveness probes of the log
Probes == { k \in 1..Len(log) : log[k].target = "api/json" }

\* C1: every POST sent to the control plane carries a crumb that was fetched
\* in the cookie-bearing session context the POST itself is sent in.
C1_CrumbSharesSession ==
  \A k \in Posts : log[k].crumbCtx = log[k].ctx

\* C2: for a job name that was absent when the run began (and with no
\* deletion and every existence check answered), the control plane receives
\* no creation POST beyond the first one, however often createPipelineJob is
\* called with that name.
C2_OneCreationPost ==
  \A n \in JobNames :
    (jobs0[n] = NoJob /\ deletePosts = 0 /\ ~getFailed) => createPosts[n] <= 1

\* C3: when the existence GET finds the job (its body contains "fullName"),
\* createPipelineJob returns true having issued that GET only -- no crumb
\* request, no POST -- and leaves the stored job as it was, whatever
\* repository URL and script path it was called with.
C3_ExistingJobSkipped ==
  [][ ( /\ calls' = calls + 1
        /\ op'.name = "createPipelineJob"
        /\ log'[1].hit )
      => ( /\ ret' = TRUE
           /\ Len(log') = 1
           /\ Posts' = {}
           /\ jobs' = jobs
           /\ createPosts' = createPosts ) ]_vars

\* C3 witness: a finished call that met an existing job whose stored
\* configuration differs from the one the call asked for
C3_Witness ==
  /\ pc = "idle" /\ op.name = "createPipelineJob"
  /\ log[1].hit /\ ret = TRUE /\ Len(log) = 1
  /\ jobs[op.job] # JobConfigXml(op.job, op.url, op.script)
  /\ op.job = <<"a", " ", "b">>

Hits == { k \in Probes : log[k].hit }

\* C5: when the liveness check fails k times (k < ReadyAttempts) and then
\* succeeds, setupJenkins has made exactly those k + 1 liveness calls, makes
\* no further one, holds apiReady, and goes on to return true.
C5_ReadyOnFirstSuccess ==
  \A k \in Hits :
    /\ k <= ReadyAttempts
    /\ Probes = 1..k
    /\ \A j \in 1..(k - 1) : ~log[j].hit
    /\ apiReady
    /\ pc \in {"sj_gate", "sj_job", "idle"}
    /\ (pc = "idle" => ret = TRUE)

\* C5 witness: two failures, then the marker: true after exactly 3 calls
C5_Witness ==
  /\ pc = "idle" /\ op.name = "setupJenkins" /\ ret = TRUE
  /\ Probes = 1..3 /\ Hits = {3}

\* C6: when every liveness check fails, setupJenkins never makes more than
\* ReadyAttempts liveness calls, keeps making progress until it returns,
\* and returns false after exactly ReadyAttempts calls.
C6_NotReadyAfterAllAttempts ==
  (op.name = "setupJenkins" /\ Hits = {}) =>
    /\ Len(log) <= ReadyAttempts
    /\ Probes = 1..Len(log)
    /\ (pc # "idle" => ENABLED SetupNext)
    /\ (pc = "sj_poll" => Len(log) < ReadyAttempts)
    /\ (pc = "idle" => ret = FALSE /\ Len(log) = ReadyAttempts)

\* C6 witness: setupJenkins has returned false after ReadyAttempts failed calls
C6_Witness ==
  /\ pc = "idle" /\ op.name = "setupJenkins" /\ ret = FALSE
  /\ Len(log) = ReadyAttempts /\ Hits = {}

\* C7: within setupJenkins every provisioning request (crumb request,
\* credential POST, job-existence GET, job-creation POST) comes after a
\* liveness check that succeeded in the same call; a call in which none
\* succeeded returns false having issued no provisioning request.
C7_ReadinessGatesProvisioning ==
  op.name = "setupJenkins" =>
    /\ \A k \in (1..Len(log)) \ Probes : \E j \in Hits : j < k
    /\ ((pc = "idle" /\ Hits = {}) => (ret = FALSE /\ Probes = 1..Len(log)))

\* C7 witness: a finished setupJenkins that provisioned a credential and a
\* job after its third liveness check succeeded
C7_Witness ==
  /\ pc = "idle" /\ op.name = "setupJenkins" /\ ret = TRUE
  /\ Hits = {3}
  /\ \E k \in Posts : log[k].target = "createCredentials"
  /\ \E k \in Posts : log[k].target = "createItem"

\* the URL the claims expect for a non-empty tunnel list: that of the first
\* entry whose scheme is https, or of the first entry when there is none
ExpectedUrl(ts, u) ==
  \/ \E k \in 1..Len(ts) :
       /\ ts[k].public_url[1] = "https://"
       /\ \A m \in 1..(k - 1) : ts[m].public_url[1] # "https://"
       /\ u = ts[k].public_url
  \/ /\ \A k \in 1..Len(ts) : ts[k].public_url[1] # "https://"
     /\ u = ts[1].public_url

\* C8: when the status response startNgrokTunnel begins with lists at least
\* one tunnel, the call returns at once with the URL of the first https
\* entry, or of the first entry when none is https, and launches nothing.
C8_ReuseListedTunnel ==
  (op.name = "startNgrokTunnel" /\ Len(statuses[1]) > 0) =>
    /\ pc = "idle"
    /\ Len(statuses) = 1
    /\ spawned = 0
    /\ ExpectedUrl(statuses[1], url)

\* C8 witness: the listed tunnels begin with an http entry, and the https
\* entry after it was returned
C8_Witness ==
  /\ pc = "idle" /\ op.name = "startNgrokTunnel"
  /\ Len(statuses[1]) = 2
  /\ statuses[1][1].public_url = <<"http://", "h1", "/">>
  /\ url = <<"https://", "h2">>
  /\ spawned = 0 /\ launches = 0

\* C9: when the status response startNgrokTunnel begins with lists no tunnel,
\* the call launches the provider exactly once, polls at most TunnelAttempts
\* times, and the first poll that lists a tunnel is its last: it returns the
\* URL expected for that list.
C9_LaunchOnceThenFirstListing ==
  (op.name = "startNgrokTunnel" /\ Len(statuses[1]) = 0) =>
    /\ spawned = 1
    /\ Len(statuses) - 1 <= TunnelAttempts
    /\ \A k \in 2..Len(statuses) :
         Len(statuses[k]) > 0 =>
           /\ k = Len(statuses)
           /\ pc = "idle"
           /\ ExpectedUrl(statuses[k], url)

\* C9 witness: launched, two polls without a tunnel, the third lists one
C9_Witness ==
  /\ pc = "idle" /\ op.name = "startNgrokTunnel"
  /\ Len(statuses) = 4 /\ Len(statuses[4]) = 1
  /\ url = <<"http://", "h1", "/">>
  /\ spawned = 1

\* no status query of the call has listed a tunnel
NeverListed == \A k \in 1..Len(statuses) : Len(statuses[k]) = 0

\* C10: when no status query lists a tunnel, startNgrokTunnel has launched
\* exactly one provider process, keeps making progress, polls no more than
\* TunnelAttempts times, and returns null after exactly TunnelAttempts
\* polls; no step of the call issues a kill.
C10_NullAfterAllPolls ==
  /\ [] ( (op.name = "startNgrokTunnel" /\ NeverListed) =>
            /\ spawned = 1
            /\ Len(statuses) - 1 <= TunnelAttempts
            /\ (pc # "idle" => ENABLED TunnelNext)
            /\ (pc = "ng_poll" => Len(statuses) - 1 < TunnelAttempts)
            /\ (pc = "idle" => url = NullUrl /\ Len(statuses) - 1 = TunnelAttempts) )
  /\ [][ op'.name = "startNgrokTunnel" => kills' = kills ]_vars

\* C10 witness: null returned after TunnelAttempts polls, the one launched
\* process left alone
C10_Witness ==
  /\ pc = "idle" /\ op.name = "startNgrokTunnel"
  /\ NeverListed /\ Len(statuses) = TunnelAttempts + 1
  /\ url = NullUrl /\ spawned = 1 /\ launches = 1 /\ kills = 0

\* C11 (as claimed): with no stopNgrok, once a startNgrokTunnel call has
\* returned a URL and every status query since lists the same tunnels, at
\* most one provider process has been launched in the whole run.
C11_AtMostOneLaunchEver ==
  (kills = 0 /\ anchor # << >> /\ ~drift) => launches <= 1

\* C11 (amended): once a startNgrokTunnel call has returned a URL, and as long
\* as there is no stopNgrok and every status query lists the same tunnels,
\* no step launches a provider process, and every later startNgrokTunnel
\* call returns at once, after one status query, with the same URL.  How
\* many processes were launched before that URL is not bounded by one: a
\* call launches at most one, and a call that gave up has launched one.
C11_ReuseIsIdempotent ==
  /\ [] (spawned <= 1)
  /\ [][ (anchor # << >> /\ ~drift')
          => /\ launches' = launches
             /\ ( (calls' = calls + 1 /\ op'.name = "startNgrokTunnel")
                   => /\ url' = url /\ url' # NullUrl
                      /\ spawned' = 0
                      /\ Len(statuses') = 1
                      /\ pc' = "idle" ) ]_vars

\* C11 witness: the first call launched the provider and returned a URL, the
\* second call found the tunnel listed and returned the same URL
C11_Witness ==
  /\ pc = "idle" /\ op.name = "startNgrokTunnel" /\ calls = 2
  /\ kills = 0 /\ anchor # << >> /\ ~drift
  /\ launches = 1 /\ spawned = 0 /\ Len(statuses) = 1
  /\ url = <<"https://", "h2">>

CrumbFetches == { k \in 1..Len(log) : log[k].target = "crumbIssuer" }

\* C13: every POST comes right after a crumb fetch of the same call that was
\* answered, and carries the crumb of that fetch; no two POSTs of a call
\* carry the same crumb; every answered crumb fetch is followed by the one
\* POST it was made for, so a call that sends n POSTs has made at least n
\* crumb fetches.
C13_FreshCrumbPerPost ==
  /\ \A k \in Posts :
       /\ k > 1
       /\ log[k - 1].target = "crumbIssuer" /\ log[k - 1].hit
       /\ log[k].crumbCtx = log[k - 1].ctx
  /\ \A j, k \in Posts : j # k => log[j].crumbCtx # log[k].crumbCtx
  /\ \A k \in CrumbFetches :
       log[k].hit => (k < Len(log) /\ log[k + 1].kind = "POST")
  /\ Cardinality(CrumbFetches) >= Cardinality(Posts)

\* C13 witness: clearJobs has deleted two jobs with two crumb fetches
C13_Witness ==
  /\ pc = "idle" /\ op.name = "clearJobs"
  /\ Cardinality(Posts) = 2 /\ Cardinality(CrumbFetches) = 2
  /\ \A n \in JobNames : jobs0[n] # NoJob /\ jobs[n] = NoJob

\* C14: a POST operation reports success only if its request was delivered
\* and the control plane accepted it: addCredential returns true only after
\* a credential POST the control plane accepted, and createPipelineJob, when
\* it sent a creation POST, returns true only if that POST created the job;
\* a request the control plane rejects is reported as a failure.
C14_SuccessOnlyIfAccepted ==
  [][ /\ (calls' = calls + 1 /\ op'.name = "addCredential" /\ ret')
         => /\ Posts' # {}
            /\ \A k \in Posts' :
                 log'[k].hit /\ CrumbValid(log'[k].crumbCtx, log'[k].ctx)
      /\ (calls' = calls + 1 /\ op'.name = "createPipelineJob" /\ ret' /\ Posts' # {})
         => /\ jobs[op'.job] = NoJob
            /\ jobs'[op'.job] = JobConfigXml(op'.job, op'.url, op'.script) ]_vars

\* C15: a GET of the API client issues one request and, whenever the request
\* failed -- no connection, or a status other than 2xx -- returns null.
C15_GetFailureYieldsNull ==
  op.name \in {"jenkinsApi", "httpGet"} =>
    /\ Len(log) = 1
    /\ (got.status # 200 => got.body = JsNull)

CredentialFailed ==
  /\ op.name = "setupJenkins" /\ WantsCredential(op)
  /\ pc \in {"sj_job", "idle"} /\ apiReady
  /\ ~credRet

C18_SavedTokenInstalled ==
  [][ ( /\ calls' = calls + 1 /\ op'.name = "setupNgrokAndWebhook"
        /\ installed' /\ ~authed /\ savedToken # "" )
      => ( /\ Len(tokenTries') >= 1
           /\ tokenTries'[1].token = savedToken ) ]_vars

\* C19: a setupWebhook invocation, direct or from setupNgrokAndWebhook, has
\* at most one hook-creation request reach the hosting platform.
C19_AtMostOneHookRequest ==
  op.name \in {"setupWebhook", "setupNgrokAndWebhook"} => hookCalls <= 1

\* C20: when no hook is created, setupWebhook (called with a URL) returns
\* the payload URL with created = false and the manual-fallback indicator,
\* and setupNgrokAndWebhook, which has a tunnel URL by then, finishes with
\* success = true, that tunnel URL, and webhookCreated = false; the step
\* that registers the webhook can always be taken.
C20_WebhookFailureNotFatal ==
  /\ [] (pc = "nw_hook" => ENABLED SetupNgrokWebhook)
  /\ [][ /\ ( /\ calls' = calls + 1 /\ op'.name = "setupWebhook"
               /\ op'.jenkinsUrl # << >> /\ hooks' = hooks )
            => returned' = [NoResult EXCEPT !.kind = "setupWebhook",
                                            !.webhookUrl = HookUrl(StripSlash(op'.jenkinsUrl)),
                                            !.created = FALSE, !.manual = TRUE]
         /\ ( /\ pc = "nw_hook" /\ url # NullUrl /\ op.full # ""
               /\ hooks' = hooks )
            => /\ pc' = "idle"
               /\ returned'.success /\ returned'.reason = ""
               /\ returned'.ngrokUrl = url
               /\ ~returned'.webhookCreated ]_vars

\* C20 witness: both attempts at creating the hook were refused, and
\* setupNgrokAndWebhook returned success with the tunnel URL
C20_Witness ==
  /\ pc = "idle" /\ op.name = "setupNgrokAndWebhook" /\ op.full = "o/r"
  /\ hooks = 0 /\ hookCalls = 2
  /\ returned.success /\ ~returned.webhookCreated
  /\ returned.ngrokUrl = <<"https://", "h2">>
  /\ returned.webhookUrl = <<"https://", "h2", "/github-webhook/">>

\* the elements of a sequence
Elems(q) == { q[k] : k \in 1..Len(q) }
\* a readiness gate of the run has closed without ever succeeding: the wait
\* of startJenkins timed out, or setupJenkins has returned with its
\* readiness loop exhausted
GateNeverSucceeded ==
  \/ thrown = "Jenkins failed to start within timeout"
  \/ /\ "setupJenkins" \in Elems(steps)
     /\ mpc \in {"configuring", "exited"} /\ pc = "idle"
     /\ ~apiReady

\* C21: when a readiness gate never succeeds in an orchestration run, the
\* run reports neither that setup is complete nor that the pipeline job was
\* created, and it ends with exit status 1.
C21_GateFailureIsFatal ==
  GateNeverSucceeded =>
    /\ "SETUP COMPLETE" \notin printed
    /\ "Pipeline job created" \notin printed
    /\ (mpc = "exited" => exitCode = 1)

\* the run has ended on an error: message printed, exit status 1
Aborted(st, code, out) == st = "exited" /\ code = 1 /\ "error" \in out

\* C22: a step that needs a local file that is missing (startJenkins with
\* no container running and no docker-compose.yml, copyPipeline with no
\* Jenkinsfile) ends the run with an error message and exit status 1, and
\* once the run has ended no step runs and nothing changes any more.
C22_MissingFileAborts ==
  [][ /\ (mpc = "startJenkins" /\ ~container /\ "docker-compose.yml" \notin files)
           => Aborted(mpc', exitCode', printed')
      /\ (mpc = "copyPipeline" /\ "Jenkinsfile" \notin files)
           => Aborted(mpc', exitCode', printed')
      /\ (mpc = "exited") => UNCHANGED vars
    ]_vars

\* a run that stopped in its first step on the missing docker-compose.yml
C22_Witness ==
  /\ thrown = "docker-compose.yml not found"
  /\ Aborted(mpc, exitCode, printed)
  /\ steps = <<"startJenkins">>

\* the four steps in the order main() calls them
StepOrder == <<"startJenkins", "createAngularRepo", "copyPipeline", "setupJenkins">>
\* a step of the run has thrown
StepFailed == thrown # "none" /\ steps # << >>

C24_NothingLeftBetweenCalls == pc = "idle" => tmp = NoTemp

\* C25: a token saved in the config store stays there, whatever the
\* tunnel manager does and whether or not the provider still takes it; it
\* is only ever replaced by a token the user typed and the provider took.
C25_SavedTokenKept ==
  [][ savedToken # "" =>
        \/ savedToken' = savedToken
        \/ /\ savedToken' # ""
           /\ tokenTries' # << >>
           /\ tokenTries'[Len(tokenTries')] = Try(savedToken', TRUE)
    ]_vars

\* the provider refused the saved token, no other was accepted, and the
\* refused token is still the saved one
C25_Witness ==
  /\ op.name \in {"configureNgrokAuth", "setupNgrokAndWebhook"}
  /\ tokenTries # << >>
  /\ tokenTries[1] = Try("t1", FALSE)
  /\ \A k \in 1..Len(tokenTries) : ~tokenTries[k].ok
  /\ savedToken = "t1"

\* the status response a finished startNgrokTunnel call returned its URL from
LastListing == statuses[Len(statuses)]

\* C26: the URL startNgrokTunnel(port) returns is the public URL of a
\* listed tunnel that exposes the requested local port.
C26_UrlForRequestedPort ==
  (op.name = "startNgrokTunnel" /\ pc = "idle" /\ url # NullUrl) =>
    \E k \in 1..Len(LastListing) :
      LastListing[k].public_url = url /\ LastListing[k].port = op.port

\* C26, amended: the URL startNgrokTunnel(port) returns is the public URL of
\* one of the tunnels the status endpoint lists, an https one whenever any is
\* listed, whatever local port the tunnel exposes.
C26_UrlOfListedTunnel ==
  (op.name = "startNgrokTunnel" /\ pc = "idle" /\ url # NullUrl) =>
    \E k \in 1..Len(LastListing) :
      /\ LastListing[k].public_url = url
      /\ IsHttps(url) \/ \A m \in 1..Len(LastListing) : ~IsHttps(LastListing[m].public_url)

\* asked for port 8080, the call returned the URL of the one listed tunnel,
\* which exposes port 3000
C26_Witness ==
  /\ op.name = "startNgrokTunnel" /\ pc = "idle"
  /\ op.port = 8080
  /\ LastListing = << [public_url |-> <<"https://", "h2">>, port |-> 3000] >>
  /\ url = <<"https://", "h2">>

\* the places of a document where an element with this tag opens
Opens(xml, tag) == { k \in 1..Len(xml) : xml[k] = "<" \o tag \o ">" }
\* the content of the element opening at k: up to the next closing tag
ElementContent(xml, k, tag) ==
  LET ends == { j \in (k + 1)..Len(xml) : xml[j] = "</" \o tag \o ">" }
  IN  IF ends = {} THEN SubSeq(xml, k + 1, Len(xml))
      ELSE SubSeq(xml, k + 1, (CHOOSE j \in ends : \A m \in ends : j <= m) - 1)
\* the document has exactly one element with this tag, holding this text
HoldsOnce(xml, tag, text) ==
  /\ Cardinality(Opens(xml, tag)) = 1
  /\ \A k \in Opens(xml, tag) : ElementContent(xml, k, tag) = << text >>
\* the last call was addCredential and it sent its POST, with the body
\* it had written to jenkins-cred.xml
CredentialPosted ==
  /\ op.name = "addCredential"
  /\ \E k \in 1..Len(log) : log[k].kind = "POST" /\ log[k].target = "createCredentials"

\* C27: whatever id, username and secret addCredential is called with, the
\* body of its POST has exactly one <id>, one <username> and one <password>
\* element, holding the id, the username and the secret.
C27_OneElementPerValue ==
  CredentialPosted =>
    /\ HoldsOnce(tmp.cred, "id", op.id)
    /\ HoldsOnce(tmp.cred, "username", op.user)
    /\ HoldsOnce(tmp.cred, "password", op.pass)

\* the last call was createPipelineJob and it sent its POST, with the
\* document it had written to jenkins-job.xml
JobPosted ==
  /\ op.name = "createPipelineJob"
  /\ \E k \in 1..Len(log) : log[k].kind = "POST" /\ log[k].target = "createItem"

\* C28: the document job creation POSTs encodes the SCM remote URL derived
\* from the repository URL asked for, the branch pattern */<branch> of the
\* branch asked for, the script path asked for and the push trigger.
C28_DocumentEncodesRequest ==
  JobPosted =>
    /\ tmp.job.url = op.url \o <<".git">>
    /\ tmp.job.branch = "*/" \o op.branch
    /\ tmp.job.script = op.script
    /\ tmp.job.trigger

\* C29: every stopNgrok call, whatever the tunnel's state and whatever came
\* before it, issues its kill command and returns without an exception,
\* also when the command found no process to kill.
C29_StopNeverThrows ==
  [][ op'.name = "stopNgrok" =>
        /\ kills' = kills + 1
        /\ ~killed'.threw
        /\ pc' = "idle"
    ]_vars

\* two stopNgrok calls in a row, the second finding no process to kill
C29_Witness ==
  /\ op.name = "stopNgrok" /\ pc = "idle"
  /\ calls = 2 /\ kills = 2
  /\ killed.exit = 1 /\ ~killed.threw
  /\ tstate = "stopped"

\* the keys an operation on the config store is meant to write
OwnKeys(o) ==
  CASE o.name = "configureNgrokAuth" -> {"ngrokAuthToken"}
    [] o.name = "setConfigValue" -> {o.id}
    [] o.name \in {"saveDockerHubCredentials", "clearDockerHubCredentials"}
         -> {"dockerHubUsername", "dockerHubPassword"}
    [] o.name \in {"saveGitHubCredentials", "clearGitHubCredentials"}
         -> {"githubUsername", "githubToken"}
    [] OTHER -> {}

\* C30: the config store is one document.  A save that succeeds leaves the
\* directory and the document in place, whether or not they were there;
\* loadConfig gives the empty configuration when there is no document; and
\* every save or clear of a field leaves all keys but its own as they were.
C30_OneSharedDocument ==
  [][ /\ (op'.name \in {"setConfigValue", "saveDockerHubCredentials", "clearDockerHubCredentials",
                        "saveGitHubCredentials", "clearGitHubCredentials"} /\ ret')
           => store'.dir /\ store'.file
      /\ (op'.name = "configureNgrokAuth" /\ savedToken' # savedToken)
           => store'.dir /\ store'.file /\ store'.doc["ngrokAuthToken"] = savedToken'
      /\ (op'.name = "loadConfig" /\ ~store.file) => loaded' = EmptyConfig
      /\ \A k \in Keys \ OwnKeys(op') : LoadConfig(store')[k] = LoadConfig(store)[k]
    ]_vars

\* every key was set; setConfigValue then changed the sixth and
\* clearGitHubCredentials removed its two: the other three are as they were
C30_Witness ==
  /\ calls = 2 /\ op.name = "clearGitHubCredentials" /\ ret
  /\ store.doc = [k \in Keys |-> CASE k \in {"githubUsername", "githubToken"} -> Undefined
                                   [] k = "other" -> "v2"
                                   [] OTHER -> "v1"]

\* the last request of a log is a crumb fetch that failed
EndsOnFailedFetch(l) ==
  Len(l) > 0 /\ l[Len(l)].target = "crumbIssuer" /\ ~l[Len(l)].hit

SavedTries(token) == IF token # "" THEN 1 ELSE 0

\* C32: configureNgrokAuth writes a typed token to the config store only
\* once the provider has taken it.  When nothing is typed, or the provider
\* refuses what was typed, the call returns false and the store is as it
\* was; whenever the store changes, the token now stored is the typed one
\* the provider took last; and a saved token the provider refuses is
\* followed by the prompt, the result then being that of the typed token.
C32_TokenSavedOnceAccepted ==
  [][ (calls' = calls + 1 /\ op'.name = "configureNgrokAuth") =>
        LET n == Len(tokenTries')
            typed == n > SavedTries(savedToken)
        IN  /\ (prompts' = 1 /\ (~typed \/ ~tokenTries'[n].ok))
              => (ret' = FALSE /\ store' = store)
            /\ store' # store
              => /\ prompts' = 1 /\ typed /\ tokenTries'[n].ok /\ ret'
                 /\ store'.file /\ store'.doc["ngrokAuthToken"] = tokenTries'[n].token
            /\ (savedToken # "" /\ ~tokenTries'[1].ok)
              => (prompts' = 1 /\ ret' = (typed /\ tokenTries'[n].ok))
    ]_vars

\* C32 witness: the saved token was refused, the typed one taken and stored
C32_Witness ==
  /\ op.name = "configureNgrokAuth" /\ ret /\ prompts = 1
  /\ tokenTries = << Try("v1", FALSE), Try("t2", TRUE) >>
  /\ store.doc["ngrokAuthToken"] = "t2"

\* the reasons setupNgrokAndWebhook gives for a failure
FailureReasons == {"install_failed", "auth_required", "auth_failed", "tunnel_failed"}

\* C33: setupNgrokAndWebhook goes install check, authentication, tunnel
\* start, webhook registration, in that order.  A failed install check ends
\* the call with install_failed before any token is tried; a missing or
\* failed authentication ends it with auth_required or auth_failed before
\* the tunnel manager is touched; the tunnel is started only with the
\* provider installed and authenticated, and no hook request is made
\* while it starts; no tunnel URL ends the call with tunnel_failed and no
\* hook request; a hook request is made only with a URL and a repository
\* given; and a call that ends without success carries one of the four reasons.
C33_StepsInOrder ==
  /\ [] ( (pc = "idle" /\ op.name = "setupNgrokAndWebhook")
            => /\ returned.kind = "setupNgrokAndWebhook"
               /\ returned.success = (returned.reason = "")
               /\ ~returned.success => returned.reason \in FailureReasons
               /\ returned.success => (url # NullUrl /\ returned.ngrokUrl = url) )
  /\ [][ /\ (calls' = calls + 1 /\ op'.name = "setupNgrokAndWebhook")
           => /\ UNCHANGED << tunnelVars, hooks >> /\ hookCalls' = 0
              /\ ~installed' => (returned'.reason = "install_failed" /\ pc' = "idle")
              /\ returned'.reason = "install_failed"
                   => (~installed' /\ tokenTries' = << >> /\ prompts' = 0)
              /\ (installed' /\ ~authed /\ ~op'.rl)
                   => (returned'.reason = "auth_required" /\ pc' = "idle" /\ tokenTries' = << >>)
              /\ (installed' /\ ~authed /\ op'.rl /\ ~authed')
                   => (returned'.reason = "auth_failed" /\ pc' = "idle")
              /\ returned'.reason \in {"auth_required", "auth_failed"} => (installed' /\ ~authed')
              /\ pc' = "nw_tunnel" => (installed' /\ authed' /\ returned'.reason = "")
              /\ pc' \in {"idle", "nw_tunnel"}
         /\ (op.name = "setupNgrokAndWebhook" /\ pc \in {"nw_tunnel", "ng_poll"})
           => /\ UNCHANGED << hooks, hookCalls, returned, installed, authed, tokenTries, prompts >>
              /\ pc' \in {"ng_poll", "nw_hook"}
         /\ (op.name = "setupNgrokAndWebhook" /\ pc = "nw_hook")
           => /\ UNCHANGED << tunnelVars, installed, authed, tokenTries, prompts >>
              /\ pc' = "idle"
              /\ url = NullUrl => (returned'.reason = "tunnel_failed" /\ hookCalls' = 0)
              /\ returned'.reason = "tunnel_failed" => url = NullUrl
              /\ hookCalls' > 0 => (url # NullUrl /\ op.full # "")
              /\ hooks' # hooks => (url # NullUrl /\ op.full # "")
    ]_vars

\* C33 witness: a call that went through all four steps: the token was
\* asked for and taken, the tunnel launched and listed, the hook created
C33_Witness ==
  /\ pc = "idle" /\ op.name = "setupNgrokAndWebhook"
  /\ returned.success /\ returned.webhookCreated
  /\ prompts = 1 /\ launches = 1 /\ hookCalls = 1 /\ hooks = 1

\* C34: the webhook URL setupNgrokAndWebhook reports to its caller is the
\* target URL setupWebhook registered for the tunnel URL, whatever the
\* tunnel URL, one ending in "/" included.
C34_ReportedUrlIsRegistered ==
  [][ (op.name = "setupNgrokAndWebhook" /\ pc = "nw_hook" /\ url # NullUrl /\ op.full # "")
        => returned'.webhookUrl = HookUrl(StripSlash(url)) ]_vars

\* C35: clearJobs sends exactly one delete POST for each job the control
\* plane listed, in the order of the listing, and goes on to the next job
\* after a deletion that failed; it sends no POST when the listing GET
\* failed or listed nothing; and it reports all jobs cleared only if every
\* deletion succeeded.
C35_OneDeletePerListedJob ==
  [][ /\ (calls' = calls + 1 /\ op'.name = "clearJobs" /\ pc' = "idle") => Posts' = {}
      /\ pc = "cj_loop"
           => /\ Len(log') > Len(log)
              /\ Posts' = Posts \cup {Len(log')}
              /\ log'[Len(log')].target = "doDelete"
              /\ log'[Len(log')].arg = EncodeURIComponent(Head(todo))
              /\ Len(todo) > 1 => pc' = "cj_loop"
      /\ (op'.name = "clearJobs" /\ "All jobs cleared!" \in Elems(console'))
           => "Failed to delete" \notin Elems(console')
    ]_vars

\* the messages of the three validations of createAngularRepo
ValidationErrors == {"output-dir", "final-dir", "already exists on GitHub"}

\* C36 (as claimed): createAngularRepo validates before any side effect.
\* With the output directory missing, the target directory present or the
\* repository already on the hosting platform it throws with no temp
\* directory made, nothing scaffolded and no repository created; and a temp
\* directory it made is gone when the call ends, however it ends.
C36_ValidateThenCleanUp ==
  [][ mpc = "createRepo" =>
        /\ (thrown' \in ValidationErrors \/ op.full \in repos)
             => (mpc' = "exited" /\ scaffold' = NoScaffold /\ repos' = repos)
        /\ scaffold'.did # << >> => ~scaffold'.tempDir
    ]_vars

\* C36 (amended): the three validations come before any side effect: when
\* the output directory is missing, the target directory is present or `gh
\* repo view` shows the repository, the call throws with no temp directory
\* made, nothing scaffolded and no repository created.  A repository that
\* exists but that `gh repo view` fails to show is not detected: the call
\* may make the temp directory and scaffold before it throws, but it always
\* throws and creates or clones nothing.  Once the temp directory is made,
\* every exit path ends with the attempt to remove it, whose failure is
\* swallowed; and the call returns only after mkdir, scaffold, create and
\* clone have all run, in that order.
C36_ValidateThenTryCleanUp ==
  [][ mpc = "createRepo" =>
        /\ thrown' \in ValidationErrors
             => (mpc' = "exited" /\ scaffold' = NoScaffold /\ repos' = repos)
        /\ op.full \in repos
             => /\ mpc' = "exited" /\ repos' = repos
                /\ \A k \in 1..Len(scaffold'.did) : scaffold'.did[k] \notin {"create", "clone"}
        /\ scaffold'.did = << >> => (~scaffold'.tempDir /\ thrown' \in ValidationErrors)
        /\ scaffold'.did # << >>
             => /\ scaffold'.did[1] = "mkdir"
                /\ scaffold'.did[Len(scaffold'.did)] = "rm"
                /\ thrown' \notin ValidationErrors
        /\ mpc' = "copyPipeline"
             => scaffold'.did = << "mkdir", "scaffold", "create", "clone", "rm" >>
    ]_vars

\* C36 witness: the repository existed, `gh repo view` did not show it, the
\* call scaffolded, failed at `gh repo create` and removed its temp directory
C36_Witness ==
  /\ mpc = "exited" /\ thrown = "create" /\ op.full \in repos
  /\ scaffold = [tempDir |-> FALSE, did |-> << "mkdir", "scaffold", "rm" >>]

\* the field-level saves of the config store
FieldSaves == {"setConfigValue", "saveDockerHubCredentials", "saveGitHubCredentials"}

\* C37: a config document that exists but does not parse is read as the
\* empty configuration by loadConfig, and the next field-level save that
\* succeeds on it (setConfigValue, save*Credentials, the saveNgrokToken of
\* configureNgrokAuth) leaves a document that parses and holds the keys
\* that save wrote and no other: everything stored before is gone.
C37_DamagedDocumentReplaced ==
  [][ (store.file /\ ~store.parses /\ calls' = calls + 1) =>
        /\ loaded' = EmptyConfig \/ op'.name = "configureNgrokAuth"
        /\ savedToken = ""
        /\ ( \/ (op'.name \in FieldSaves /\ ret')
             \/ (op'.name = "configureNgrokAuth" /\ store' # store) )
           => /\ store'.file /\ store'.parses
              /\ \A k \in OwnKeys(op') : store'.doc[k] # Undefined
              /\ \A k \in Keys \ OwnKeys(op') : store'.doc[k] = Undefined
    ]_vars

\* C37 witness: the document held every key and did not parse; after
\* saveDockerHubCredentials it parses and holds the two Docker Hub keys only
C37_Witness ==
  /\ calls = 1 /\ op.name = "saveDockerHubCredentials" /\ ret
  /\ store.parses
  /\ store.doc = [k \in Keys |-> IF k \in {"dockerHubUsername", "dockerHubPassword"}
                                 THEN "v2" ELSE Undefined]
  /\ store.dropped = Keys \ {"dockerHubUsername", "dockerHubPassword"}

\* C38: startJenkins (skipIfRunning = true) with the container running
\* issues no compose-up, makes no probe and returns started = false,
\* alreadyRunning = true.  Otherwise it returns started = true only after
\* one compose-up and a probe that saw 200 or 403, that probe being one of
\* at most maxAttempts and the first to see either; and it throws for the
\* timeout when, and only when, maxAttempts probes have all failed.
\* (While waitForJenkins runs, i is the number of probes that have failed.)
C38_SkipOrWaitForLogin ==
  /\ [] ( /\ jenkins.result = "alreadyRunning"
               => (jenkins.ups = 0 /\ jenkins.status = "" /\ container)
          /\ jenkins.result = "started"
               => (jenkins.ups = 1 /\ jenkins.status \in {"200", "403"})
          /\ thrown = "Jenkins failed to start within timeout"
               => (jenkins.result = "threw" /\ jenkins.status \notin {"200", "403"}) )
  /\ [][ /\ (mpc = "startJenkins" /\ container /\ mpc' # "exited")
              => (jenkins'.result = "alreadyRunning" /\ mpc' = "createRepo" /\ i' = i)
         /\ (mpc = "startJenkins" /\ ~container /\ mpc' # "exited")
              => (jenkins' = [NoJenkins EXCEPT !.ups = 1] /\ mpc' = "waiting" /\ i' = 0)
         /\ mpc = "waiting"
              => /\ i < StartAttempts
                 /\ jenkins'.status \in {"200", "403"}
                      => (jenkins'.result = "started" /\ mpc' = "createRepo" /\ i' = i)
                 /\ jenkins'.status \notin {"200", "403"} => i' = i + 1
                 /\ (jenkins'.status \notin {"200", "403"} /\ i + 1 < StartAttempts)
                      => (jenkins'.result = "none" /\ mpc' = "waiting")
                 /\ (jenkins'.status \notin {"200", "403"} /\ i + 1 = StartAttempts)
                      => (mpc' = "exited" /\ thrown' = "Jenkins failed to start within timeout")
                 /\ mpc' = "exited" => i' = StartAttempts
       ]_vars

\* C38 witness: the login page answered 403 to the last probe startJenkins
\* had left, after all the others had failed, and the call returned
\* started = true
C38_Witness ==
  /\ jenkins = [ups |-> 1, status |-> "403", result |-> "started"]
  /\ i = StartAttempts - 1
  /\ mpc = "createRepo"

\* the requests of the log made for the credential, and for the job
CredentialRequests == { k \in 1..Len(log) : log[k].target = "createCredentials" }
JobRequests == { k \in 1..Len(log) : log[k].target \in {"job/api/json", "createItem"} }
\* the first request of the log that is not a liveness check (0: none)
FirstProvisioning ==
  IF (1..Len(log)) \ Probes = {} THEN 0
  ELSE CHOOSE k \in (1..Len(log)) \ Probes : \A j \in (1..Len(log)) \ Probes : k <= j

\* the options of the call hold both Docker Hub values; both repository names
CompleteCredential == op.user # "" /\ op.pass # ""
CompleteJob == op.job # NoName /\ op.full # ""

====
